---- MODULE Spec2Model ----
(***************************************************************************)
(* Ability-timing engine of smoked-dev/JRPG-Tests (src/src/combat/mod.rs). *)
(*                                                                         *)
(* Durations are f32 seconds in the source; here they are exact integers   *)
(* in units of 0.05 s (2.5 s = 50, 0.6 s = 12, 0.4 s = 8, 0.1 s = 2).      *)
(* Option<T> is the empty sequence (None) or a one-element sequence        *)
(* (Some(v)).                                                              *)
(*                                                                         *)
(* One frame of the Playing state runs the chained PreUpdate systems       *)
(*   tick_combat_timers, process_cast_completion, handle_ability_input,    *)
(*   process_buffered_ability, process_gcd_queue                           *)
(* and then, in Update, run_enemy_timeline (set Sim) and apply_hud_shake   *)
(* (set Ui, after Sim).  pc is the position in that order.                 *)
(***************************************************************************)
EXTENDS Integers, Sequences, FiniteSets, TLC

VARIABLES
    combat,        \* the CombatState resource
    timeline,      \* the EnemyTimeline resource
    dmg_events,    \* DamageEvent amounts written in the current frame
    dot_events,    \* ApplyDotEvent records written in the current frame
    shake_events,  \* HudShakeEvent durations written and not yet read
    requested,     \* abilities handed to try_use_or_buffer in the current frame
    started,       \* calls of start_cast_or_instant in the current frame: ability, caller
    resolved,      \* abilities handed to resolve_ability in the current frame
    pc,            \* the system that runs next
    dt,            \* time.delta_secs() of the current frame
    keys,          \* just-pressed keys the input loop has not reached yet
    frames,        \* frames (and session resets) so far
    script,        \* the class of inputs of this run: frame times and key presses
    health,        \* the Health component of the enemy
    dot,           \* the DotEffect component of the enemy, if any
    dmg_unread,    \* DamageEvents that handle_damage_events has not read yet
    dot_unread,    \* ApplyDotEvents that handle_apply_dot_events has not read yet
    commands,      \* deferred commands of this frame, by the system that queued them
    ran,           \* the systems of world.rs that have run in this frame
    dot_age,       \* time ticked since the DotEffect was last inserted, if ever
    dot_emitted,   \* DamageEvents tick_dots has written since that insertion
    buffered_in_cast  \* the intent in the buffer was put there while a cast was active

world_vars == <<health, dot, dmg_unread, dot_unread, commands, ran,
                dot_age, dot_emitted>>

vars == <<combat, timeline, dmg_events, dot_events, shake_events,
          requested, started, resolved, pc, dt, keys, frames, script, world_vars,
          buffered_in_cast>>

---------------------------------------------------------------------------
(* Bounds of the model *)

\* Frames explored per class of inputs.
WideFrames == 2
SoloFrames == 3
WeaveFrames == 4
LongFrames == 3
ScenarioFrames == 6
\* Frames with key presses in the class of runs that go on without end.
LiveFrames == 4
OverlapFrames == 4
BuffFrames == 4
CastBufFrames == 4
WorldFrames == 9

---------------------------------------------------------------------------
(* Option<T> *)

None == << >>
Some(v) == <<v>>
IsSome(o) == o # None
Unwrap(o) == o[1]
UnwrapOr(o, d) == IF o = None THEN d ELSE o[1]

Max(a, b) == IF a >= b THEN a ELSE b
Min(a, b) == IF a <= b THEN a ELSE b

---------------------------------------------------------------------------
(* Ability catalog *)

AbilityIds == {"Strike", "Fireball", "WeaveDash", "WeaveSong", "Cleanse",
               "Burn", "Heal", "Swiftcast", "Raging", "Jump"}

Ability(g, ct, cd, al) ==
    [triggers_gcd |-> g, cast_time |-> ct, cooldown |-> cd, ani_lock |-> al]

AbilityBook(id) ==
    CASE id = "Strike"    -> Ability(TRUE,  0,  50,   12)
      [] id = "Fireball"  -> Ability(TRUE,  30, 50,   12)
      [] id = "WeaveDash" -> Ability(FALSE, 0,  400,  12)
      [] id = "WeaveSong" -> Ability(FALSE, 0,  600,  12)
      [] id = "Cleanse"   -> Ability(FALSE, 0,  240,  2)
      [] id = "Burn"      -> Ability(TRUE,  0,  50,   12)
      [] id = "Heal"      -> Ability(TRUE,  40, 50,   12)
      [] id = "Swiftcast" -> Ability(FALSE, 0,  1200, 12)
      [] id = "Raging"    -> Ability(FALSE, 0,  1800, 12)
      [] id = "Jump"      -> Ability(FALSE, 0,  600,  12)

\* The key mapping of handle_ability_input, in the order the loop visits it.
mapping == <<"Strike", "Fireball", "WeaveDash", "WeaveSong", "Cleanse",
             "Burn", "Heal", "Swiftcast", "Raging", "Jump">>

---------------------------------------------------------------------------
(* CombatState *)

CombatStateDefault ==
    [ gcd_remaining         |-> 0,
      weaves_in_current_gcd |-> 0,
      cast                  |-> None,
      buffer                |-> None,
      gcd_queue             |-> None,
      ability_cds           |-> << >>,
      gcd_length            |-> 50,
      buffer_window         |-> 12,
      clipped               |-> FALSE,
      muddled               |-> None,
      hud_shake_remaining   |-> 0,
      ani_lock_remaining    |-> 0,
      gcd_queue_window      |-> 12,
      swiftcast_remaining   |-> None,
      raging_remaining      |-> None ]

\* ability_cds.get(&id).copied().unwrap_or(0.0)
cd_of(c, id) == IF id \in DOMAIN c.ability_cds THEN c.ability_cds[id] ELSE 0

\* ability_cds.insert(id, v)
cds_insert(cds, id, v) ==
    [k \in (DOMAIN cds) \cup {id} |-> IF k = id THEN v ELSE cds[k]]

\* can_use_now without the animation-lock test on the rhythm branch
can_use_now_ignores_lock(c, id) ==
    LET ability == AbilityBook(id)
        cd_ready == cd_of(c, id) <= 0
        not_casting == c.cast = None
    IN  IF ability.triggers_gcd
        THEN cd_ready /\ not_casting /\ c.gcd_remaining <= 0
        ELSE cd_ready /\ not_casting /\ c.gcd_remaining > 0
                      /\ c.ani_lock_remaining <= 0
                      /\ c.weaves_in_current_gcd < 2

\* can_use_now without the cap on weaves
can_use_now_uncapped(c, id) ==
    LET ability == AbilityBook(id)
        cd_ready == cd_of(c, id) <= 0
        not_casting == c.cast = None
    IN  IF ability.triggers_gcd
        THEN cd_ready /\ not_casting /\ c.gcd_remaining <= 0
                      /\ c.ani_lock_remaining <= 0
        ELSE cd_ready /\ not_casting /\ c.gcd_remaining > 0
                      /\ c.ani_lock_remaining <= 0

\* can_use_now without the test that no cast is active
can_use_now_while_casting(c, id) ==
    LET ability == AbilityBook(id)
        cd_ready == cd_of(c, id) <= 0
    IN  IF ability.triggers_gcd
        THEN cd_ready /\ c.gcd_remaining <= 0 /\ c.ani_lock_remaining <= 0
        ELSE cd_ready /\ c.gcd_remaining > 0
                      /\ c.ani_lock_remaining <= 0
                      /\ c.weaves_in_current_gcd < 2

\* can_use_now without the animation-lock test on the off-rhythm branch
can_use_now_weave_ignores_lock(c, id) ==
    LET ability == AbilityBook(id)
        cd_ready == cd_of(c, id) <= 0
        not_casting == c.cast = None
    IN  IF ability.triggers_gcd
        THEN cd_ready /\ not_casting /\ c.gcd_remaining <= 0
                      /\ c.ani_lock_remaining <= 0
        ELSE cd_ready /\ not_casting /\ c.gcd_remaining > 0
                      /\ c.weaves_in_current_gcd < 2

\* can_use_now with the cap on weaves at 3
can_use_now_cap3(c, id) ==
    LET ability == AbilityBook(id)
        cd_ready == cd_of(c, id) <= 0
        not_casting == c.cast = None
    IN  IF ability.triggers_gcd
        THEN cd_ready /\ not_casting /\ c.gcd_remaining <= 0
                      /\ c.ani_lock_remaining <= 0
        ELSE cd_ready /\ not_casting /\ c.gcd_remaining > 0
                      /\ c.ani_lock_remaining <= 0
                      /\ c.weaves_in_current_gcd < 3

can_use_now(c, id) ==
    LET ability == AbilityBook(id)
        cd_ready == cd_of(c, id) <= 0
        not_casting == c.cast = None
    IN  IF ability.triggers_gcd
        THEN cd_ready /\ not_casting /\ c.gcd_remaining <= 0
                      /\ c.ani_lock_remaining <= 0
        ELSE cd_ready /\ not_casting /\ c.gcd_remaining > 0
                      /\ c.ani_lock_remaining <= 0
                      /\ c.weaves_in_current_gcd < 2

---------------------------------------------------------------------------
(* Execution.  w is the part of the world these functions write: the       *)
(* combat state, the two event writers and the call logs.                  *)

World == [combat |-> combat, dmg |-> dmg_events, dot |-> dot_events,
          requested |-> requested, started |-> started, resolved |-> resolved]

\* u8::saturating_add(1)
saturating_add1(n) == IF n >= 255 THEN 255 ELSE n + 1

\* resolve_ability without the reset of the weave counter on the rhythm branch
resolve_ability_keeps_weaves(id, w) ==
    LET ability == AbilityBook(id)
        c0 == [w.combat EXCEPT
                 !.ability_cds = cds_insert(w.combat.ability_cds, id, ability.cooldown)]
        w0 == [w EXCEPT !.combat = c0, !.resolved = Append(w.resolved, id)]
    IN  IF ability.triggers_gcd
        THEN LET c1 == [c0 EXCEPT !.gcd_remaining = c0.gcd_length,
                                  !.clipped = FALSE,
                                  !.ani_lock_remaining = ability.ani_lock]
                 raging == UnwrapOr(c0.raging_remaining, 0) > 0
                 base == CASE id = "Strike" -> 100
                           [] id = "Fireball" -> 180
                           [] OTHER -> 0
                 \* ((base as f32) * mult) as i32, mult 1.2 or 1.0
                 amount == IF raging THEN (base * 12) \div 10 ELSE base
             IN  [w0 EXCEPT
                    !.combat = c1,
                    !.dmg = IF base > 0 THEN Append(w0.dmg, amount) ELSE w0.dmg,
                    !.dot = IF id = "Burn"
                            THEN Append(w0.dot, [dps |-> 20, duration |-> 240,
                                                 tick_every |-> 20])
                            ELSE w0.dot]
        ELSE LET n == saturating_add1(c0.weaves_in_current_gcd)
                 c1 == [c0 EXCEPT !.weaves_in_current_gcd = n,
                                  !.clipped = IF n > 2 THEN TRUE ELSE c0.clipped,
                                  !.ani_lock_remaining = ability.ani_lock]
                 c2 == CASE id = "Cleanse"   -> [c1 EXCEPT !.muddled = None]
                         [] id = "Swiftcast" -> [c1 EXCEPT !.swiftcast_remaining = Some(200)]
                         [] id = "Raging"    -> [c1 EXCEPT !.raging_remaining = Some(300)]
                         [] OTHER -> c1
                 d  == CASE id = "WeaveDash" -> Append(w0.dmg, 60)
                         [] id = "WeaveSong" -> Append(w0.dmg, 50)
                         [] id = "Jump"      -> Append(w0.dmg, 120)
                         [] OTHER -> w0.dmg
             IN  [w0 EXCEPT !.combat = c2, !.dmg = d]

\* resolve_ability without the insertion of the cooldown
resolve_ability_no_cooldown(id, w) ==
    LET ability == AbilityBook(id)
        c0 == w.combat
        w0 == [w EXCEPT !.combat = c0, !.resolved = Append(w.resolved, id)]
    IN  IF ability.triggers_gcd
        THEN LET c1 == [c0 EXCEPT !.gcd_remaining = c0.gcd_length,
                                  !.weaves_in_current_gcd = 0,
                                  !.clipped = FALSE,
                                  !.ani_lock_remaining = ability.ani_lock]
                 raging == UnwrapOr(c0.raging_remaining, 0) > 0
                 base == CASE id = "Strike" -> 100
                           [] id = "Fireball" -> 180
                           [] OTHER -> 0
                 \* ((base as f32) * mult) as i32, mult 1.2 or 1.0
                 amount == IF raging THEN (base * 12) \div 10 ELSE base
             IN  [w0 EXCEPT
                    !.combat = c1,
                    !.dmg = IF base > 0 THEN Append(w0.dmg, amount) ELSE w0.dmg,
                    !.dot = IF id = "Burn"
                            THEN Append(w0.dot, [dps |-> 20, duration |-> 240,
                                                 tick_every |-> 20])
                            ELSE w0.dot]
        ELSE LET n == saturating_add1(c0.weaves_in_current_gcd)
                 c1 == [c0 EXCEPT !.weaves_in_current_gcd = n,
                                  !.clipped = IF n > 2 THEN TRUE ELSE c0.clipped,
                                  !.ani_lock_remaining = ability.ani_lock]
                 c2 == CASE id = "Cleanse"   -> [c1 EXCEPT !.muddled = None]
                         [] id = "Swiftcast" -> [c1 EXCEPT !.swiftcast_remaining = Some(200)]
                         [] id = "Raging"    -> [c1 EXCEPT !.raging_remaining = Some(300)]
                         [] OTHER -> c1
                 d  == CASE id = "WeaveDash" -> Append(w0.dmg, 60)
                         [] id = "WeaveSong" -> Append(w0.dmg, 50)
                         [] id = "Jump"      -> Append(w0.dmg, 120)
                         [] OTHER -> w0.dmg
             IN  [w0 EXCEPT !.combat = c2, !.dmg = d]

\* resolve_ability with the multiplier 1.0 whatever the damage buff
resolve_ability_unscaled(id, w) ==
    LET ability == AbilityBook(id)
        c0 == [w.combat EXCEPT
                 !.ability_cds = cds_insert(w.combat.ability_cds, id, ability.cooldown)]
        w0 == [w EXCEPT !.combat = c0, !.resolved = Append(w.resolved, id)]
    IN  IF ability.triggers_gcd
        THEN LET c1 == [c0 EXCEPT !.gcd_remaining = c0.gcd_length,
                                  !.weaves_in_current_gcd = 0,
                                  !.clipped = FALSE,
                                  !.ani_lock_remaining = ability.ani_lock]
                 raging == UnwrapOr(c0.raging_remaining, 0) > 0
                 base == CASE id = "Strike" -> 100
                           [] id = "Fireball" -> 180
                           [] OTHER -> 0
                 \* ((base as f32) * mult) as i32, mult 1.2 or 1.0
                 amount == base
             IN  [w0 EXCEPT
                    !.combat = c1,
                    !.dmg = IF base > 0 THEN Append(w0.dmg, amount) ELSE w0.dmg,
                    !.dot = IF id = "Burn"
                            THEN Append(w0.dot, [dps |-> 20, duration |-> 240,
                                                 tick_every |-> 20])
                            ELSE w0.dot]
        ELSE LET n == saturating_add1(c0.weaves_in_current_gcd)
                 c1 == [c0 EXCEPT !.weaves_in_current_gcd = n,
                                  !.clipped = IF n > 2 THEN TRUE ELSE c0.clipped,
                                  !.ani_lock_remaining = ability.ani_lock]
                 c2 == CASE id = "Cleanse"   -> [c1 EXCEPT !.muddled = None]
                         [] id = "Swiftcast" -> [c1 EXCEPT !.swiftcast_remaining = Some(200)]
                         [] id = "Raging"    -> [c1 EXCEPT !.raging_remaining = Some(300)]
                         [] OTHER -> c1
                 d  == CASE id = "WeaveDash" -> Append(w0.dmg, 60)
                         [] id = "WeaveSong" -> Append(w0.dmg, 50)
                         [] id = "Jump"      -> Append(w0.dmg, 120)
                         [] OTHER -> w0.dmg
             IN  [w0 EXCEPT !.combat = c2, !.dmg = d]

\* resolve_ability that re-arms the rhythm clock on the off-rhythm branch too
resolve_ability_rearms_on_weave(id, w) ==
    LET ability == AbilityBook(id)
        c0 == [w.combat EXCEPT
                 !.ability_cds = cds_insert(w.combat.ability_cds, id, ability.cooldown)]
        w0 == [w EXCEPT !.combat = c0, !.resolved = Append(w.resolved, id)]
    IN  IF ability.triggers_gcd
        THEN LET c1 == [c0 EXCEPT !.gcd_remaining = c0.gcd_length,
                                  !.weaves_in_current_gcd = 0,
                                  !.clipped = FALSE,
                                  !.ani_lock_remaining = ability.ani_lock]
                 raging == UnwrapOr(c0.raging_remaining, 0) > 0
                 base == CASE id = "Strike" -> 100
                           [] id = "Fireball" -> 180
                           [] OTHER -> 0
                 \* ((base as f32) * mult) as i32, mult 1.2 or 1.0
                 amount == IF raging THEN (base * 12) \div 10 ELSE base
             IN  [w0 EXCEPT
                    !.combat = c1,
                    !.dmg = IF base > 0 THEN Append(w0.dmg, amount) ELSE w0.dmg,
                    !.dot = IF id = "Burn"
                            THEN Append(w0.dot, [dps |-> 20, duration |-> 240,
                                                 tick_every |-> 20])
                            ELSE w0.dot]
        ELSE LET n == saturating_add1(c0.weaves_in_current_gcd)
                 c1 == [c0 EXCEPT !.weaves_in_current_gcd = n,
                                  !.gcd_remaining = c0.gcd_length,
                                  !.clipped = IF n > 2 THEN TRUE ELSE c0.clipped,
                                  !.ani_lock_remaining = ability.ani_lock]
                 c2 == CASE id = "Cleanse"   -> [c1 EXCEPT !.muddled = None]
                         [] id = "Swiftcast" -> [c1 EXCEPT !.swiftcast_remaining = Some(200)]
                         [] id = "Raging"    -> [c1 EXCEPT !.raging_remaining = Some(300)]
                         [] OTHER -> c1
                 d  == CASE id = "WeaveDash" -> Append(w0.dmg, 60)
                         [] id = "WeaveSong" -> Append(w0.dmg, 50)
                         [] id = "Jump"      -> Append(w0.dmg, 120)
                         [] OTHER -> w0.dmg
             IN  [w0 EXCEPT !.combat = c2, !.dmg = d]

resolve_ability(id, w) ==
    LET ability == AbilityBook(id)
        c0 == [w.combat EXCEPT
                 !.ability_cds = cds_insert(w.combat.ability_cds, id, ability.cooldown)]
        w0 == [w EXCEPT !.combat = c0, !.resolved = Append(w.resolved, id)]
    IN  IF ability.triggers_gcd
        THEN LET c1 == [c0 EXCEPT !.gcd_remaining = c0.gcd_length,
                                  !.weaves_in_current_gcd = 0,
                                  !.clipped = FALSE,
                                  !.ani_lock_remaining = ability.ani_lock]
                 raging == UnwrapOr(c0.raging_remaining, 0) > 0
                 base == CASE id = "Strike" -> 100
                           [] id = "Fireball" -> 180
                           [] OTHER -> 0
                 \* ((base as f32) * mult) as i32, mult 1.2 or 1.0
                 amount == IF raging THEN (base * 12) \div 10 ELSE base
             IN  [w0 EXCEPT
                    !.combat = c1,
                    !.dmg = IF base > 0 THEN Append(w0.dmg, amount) ELSE w0.dmg,
                    !.dot = IF id = "Burn"
                            THEN Append(w0.dot, [dps |-> 20, duration |-> 240,
                                                 tick_every |-> 20])
                            ELSE w0.dot]
        ELSE LET n == saturating_add1(c0.weaves_in_current_gcd)
                 c1 == [c0 EXCEPT !.weaves_in_current_gcd = n,
                                  !.clipped = IF n > 2 THEN TRUE ELSE c0.clipped,
                                  !.ani_lock_remaining = ability.ani_lock]
                 c2 == CASE id = "Cleanse"   -> [c1 EXCEPT !.muddled = None]
                         [] id = "Swiftcast" -> [c1 EXCEPT !.swiftcast_remaining = Some(200)]
                         [] id = "Raging"    -> [c1 EXCEPT !.raging_remaining = Some(300)]
                         [] OTHER -> c1
                 d  == CASE id = "WeaveDash" -> Append(w0.dmg, 60)
                         [] id = "WeaveSong" -> Append(w0.dmg, 50)
                         [] id = "Jump"      -> Append(w0.dmg, 120)
                         [] OTHER -> w0.dmg
             IN  [w0 EXCEPT !.combat = c2, !.dmg = d]

\* start_cast_or_instant that makes the cast instant but keeps the buff
start_cast_or_instant_keeps_buff(id, w) ==
    LET ability == AbilityBook(id)
        c == w.combat
        swift == ability.cast_time > 0 /\ IsSome(c.swiftcast_remaining)
                 /\ Unwrap(c.swiftcast_remaining) > 0
        cast_time == IF swift THEN 0 ELSE ability.cast_time
        w0 == [w EXCEPT !.started = Append(w.started, [id |-> id, by |-> pc])]
    IN  IF cast_time > 0
        THEN [w0 EXCEPT !.combat.cast =
                  Some([ability |-> id, remaining |-> cast_time, total |-> cast_time])]
        ELSE resolve_ability(id, w0)

\* start_cast_or_instant that arms the rhythm clock when a cast begins
start_cast_or_instant_arms_clock(id, w) ==
    LET ability == AbilityBook(id)
        c == w.combat
        swift == ability.cast_time > 0 /\ IsSome(c.swiftcast_remaining)
                 /\ Unwrap(c.swiftcast_remaining) > 0
        cast_time == IF swift THEN 0 ELSE ability.cast_time
        c0 == IF swift THEN [c EXCEPT !.swiftcast_remaining = None] ELSE c
        w0 == [w EXCEPT !.combat = c0,
                        !.started = Append(w.started, [id |-> id, by |-> pc])]
    IN  IF cast_time > 0
        THEN [w0 EXCEPT !.combat.cast =
                  Some([ability |-> id, remaining |-> cast_time, total |-> cast_time]),
                        !.combat.gcd_remaining = c0.gcd_length]
        ELSE resolve_ability(id, w0)

\* start_cast_or_instant that drops the queued ability whenever one starts
start_cast_or_instant_clears_queue(id, w) ==
    LET ability == AbilityBook(id)
        c == w.combat
        swift == ability.cast_time > 0 /\ IsSome(c.swiftcast_remaining)
                 /\ Unwrap(c.swiftcast_remaining) > 0
        cast_time == IF swift THEN 0 ELSE ability.cast_time
        w0 == [w EXCEPT !.combat.swiftcast_remaining =
                           IF swift THEN None ELSE c.swiftcast_remaining,
                        !.combat.gcd_queue = None,
                        !.started = Append(w.started, [id |-> id, by |-> pc])]
    IN  IF cast_time > 0
        THEN [w0 EXCEPT !.combat.cast =
                  Some([ability |-> id, remaining |-> cast_time, total |-> cast_time])]
        ELSE resolve_ability(id, w0)

start_cast_or_instant(id, w) ==
    LET ability == AbilityBook(id)
        c == w.combat
        swift == ability.cast_time > 0 /\ IsSome(c.swiftcast_remaining)
                 /\ Unwrap(c.swiftcast_remaining) > 0
        cast_time == IF swift THEN 0 ELSE ability.cast_time
        c0 == IF swift THEN [c EXCEPT !.swiftcast_remaining = None] ELSE c
        w0 == [w EXCEPT !.combat = c0,
                        !.started = Append(w.started, [id |-> id, by |-> pc])]
    IN  IF cast_time > 0
        THEN [w0 EXCEPT !.combat.cast =
                  Some([ability |-> id, remaining |-> cast_time, total |-> cast_time])]
        ELSE resolve_ability(id, w0)

\* queues_next_gcd without the test that the rhythm clock is running
queues_next_gcd_at_zero(c, id) ==
    /\ AbilityBook(id).triggers_gcd
    /\ \/ IsSome(c.cast) /\ Unwrap(c.cast).remaining <= c.gcd_queue_window
       \/ c.gcd_remaining <= c.gcd_queue_window

\* The condition under which try_use_or_buffer queues an ineligible request.
queues_next_gcd(c, id) ==
    /\ AbilityBook(id).triggers_gcd
    /\ \/ IsSome(c.cast) /\ Unwrap(c.cast).remaining <= c.gcd_queue_window
       \/ c.gcd_remaining > 0 /\ c.gcd_remaining <= c.gcd_queue_window

\* try_use_or_buffer with buffer_window as the grace time (no min with 0.4)
try_use_or_buffer_window_grace(id, w0) ==
    LET w == [w0 EXCEPT !.requested = Append(w0.requested, id)]
        c == w.combat
    IN  IF can_use_now(c, id)
        THEN start_cast_or_instant(id, w)
        ELSE IF queues_next_gcd(c, id)
        THEN [w EXCEPT !.combat.gcd_queue = Some(id)]
        ELSE [w EXCEPT !.combat.buffer =
                  Some([id |-> id, left |-> c.buffer_window])]

\* try_use_or_buffer without the return after queueing: it goes on to the buffer
try_use_or_buffer_no_return(id, w0) ==
    LET w == [w0 EXCEPT !.requested = Append(w0.requested, id)]
        c == w.combat
        b == Some([id |-> id, left |-> Min(c.buffer_window, 8)])
    IN  IF can_use_now(c, id)
        THEN start_cast_or_instant(id, w)
        ELSE IF queues_next_gcd(c, id)
        THEN [w EXCEPT !.combat.gcd_queue = Some(id), !.combat.buffer = b]
        ELSE [w EXCEPT !.combat.buffer = b]

\* try_use_or_buffer that rejects an intent when the buffer is occupied
try_use_or_buffer_keeps_first(id, w0) ==
    LET w == [w0 EXCEPT !.requested = Append(w0.requested, id)]
        c == w.combat
    IN  IF can_use_now(c, id)
        THEN start_cast_or_instant(id, w)
        ELSE IF queues_next_gcd(c, id)
        THEN [w EXCEPT !.combat.gcd_queue = Some(id)]
        ELSE IF IsSome(c.buffer) THEN w
        ELSE [w EXCEPT !.combat.buffer =
                  Some([id |-> id, left |-> Min(c.buffer_window, 8)])]

try_use_or_buffer(id, w0) ==
    LET w == [w0 EXCEPT !.requested = Append(w0.requested, id)]
        c == w.combat
    IN  IF can_use_now(c, id)
        THEN start_cast_or_instant(id, w)
        ELSE IF queues_next_gcd(c, id)
        THEN [w EXCEPT !.combat.gcd_queue = Some(id)]
        ELSE [w EXCEPT !.combat.buffer =
                  Some([id |-> id, left |-> Min(c.buffer_window, 8)])]

---------------------------------------------------------------------------
(* Enemy timeline *)

EnemyTimelineDefault == [t |-> 0, idx |-> 0, events |-> << >>]

default_events ==
    << [at |-> 60,  kind |-> "HudShake", duration |-> 20],
       [at |-> 120, kind |-> "Muddled",  duration |-> 160],
       [at |-> 300, kind |-> "HudShake", duration |-> 30],
       [at |-> 500, kind |-> "Enrage",   duration |-> 0] >>

ensure_default_events(tl) ==
    IF tl.events = << >>
    THEN [t |-> 0, idx |-> 0, events |-> default_events]
    ELSE tl

\* the loop with an Enrage that keeps the time beyond its trigger time
RECURSIVE timeline_loop_keeps_overshoot(_)
timeline_loop_keeps_overshoot(s) ==
    IF s.tl.idx < Len(s.tl.events) /\ s.tl.t >= s.tl.events[s.tl.idx + 1].at
    THEN LET ev == s.tl.events[s.tl.idx + 1]
         IN  CASE ev.kind = "Muddled" ->
                    timeline_loop_keeps_overshoot(
                        [s EXCEPT !.combat.muddled = Some(ev.duration),
                                  !.tl.idx = s.tl.idx + 1])
               [] ev.kind = "HudShake" ->
                    timeline_loop_keeps_overshoot(
                        [s EXCEPT !.shakes = Append(s.shakes, ev.duration),
                                  !.tl.idx = s.tl.idx + 1])
               [] ev.kind = "Enrage" ->
                    timeline_loop_keeps_overshoot(
                        [s EXCEPT !.combat.hud_shake_remaining = 40,
                                  !.combat.muddled = Some(100),
                                  !.tl.t = s.tl.t - ev.at,
                                  !.tl.idx = 0])
    ELSE s

\* the loop with an Enrage that sets the alert to 1.0 s
RECURSIVE timeline_loop_enrage_short(_)
timeline_loop_enrage_short(s) ==
    IF s.tl.idx < Len(s.tl.events) /\ s.tl.t >= s.tl.events[s.tl.idx + 1].at
    THEN LET ev == s.tl.events[s.tl.idx + 1]
         IN  CASE ev.kind = "Muddled" ->
                    timeline_loop_enrage_short(
                        [s EXCEPT !.combat.muddled = Some(ev.duration),
                                  !.tl.idx = s.tl.idx + 1])
               [] ev.kind = "HudShake" ->
                    timeline_loop_enrage_short(
                        [s EXCEPT !.shakes = Append(s.shakes, ev.duration),
                                  !.tl.idx = s.tl.idx + 1])
               [] ev.kind = "Enrage" ->
                    timeline_loop_enrage_short(
                        [s EXCEPT !.combat.hud_shake_remaining = 20,
                                  !.combat.muddled = Some(100),
                                  !.tl.t = 0,
                                  !.tl.idx = 0])
    ELSE s

\* an if in place of the while: one entry per tick at most
timeline_loop_single_entry(s) ==
    IF s.tl.idx < Len(s.tl.events) /\ s.tl.t >= s.tl.events[s.tl.idx + 1].at
    THEN LET ev == s.tl.events[s.tl.idx + 1]
         IN  CASE ev.kind = "Muddled" ->
                    [s EXCEPT !.combat.muddled = Some(ev.duration),
                              !.tl.idx = s.tl.idx + 1]
               [] ev.kind = "HudShake" ->
                    [s EXCEPT !.shakes = Append(s.shakes, ev.duration),
                              !.tl.idx = s.tl.idx + 1]
               [] ev.kind = "Enrage" ->
                    [s EXCEPT !.combat.hud_shake_remaining = 40,
                              !.combat.muddled = Some(100),
                              !.tl.t = 0,
                              !.tl.idx = 0]
    ELSE s

\* The while loop of run_enemy_timeline; idx counts from 0 as in the source.
\* s = [tl, combat, shakes].
RECURSIVE timeline_loop(_)
timeline_loop(s) ==
    IF s.tl.idx < Len(s.tl.events) /\ s.tl.t >= s.tl.events[s.tl.idx + 1].at
    THEN LET ev == s.tl.events[s.tl.idx + 1]
         IN  CASE ev.kind = "Muddled" ->
                    timeline_loop([s EXCEPT !.combat.muddled = Some(ev.duration),
                                            !.tl.idx = s.tl.idx + 1])
               [] ev.kind = "HudShake" ->
                    timeline_loop([s EXCEPT !.shakes = Append(s.shakes, ev.duration),
                                            !.tl.idx = s.tl.idx + 1])
               [] ev.kind = "Enrage" ->
                    timeline_loop([s EXCEPT !.combat.hud_shake_remaining = 40,
                                            !.combat.muddled = Some(100),
                                            !.tl.t = 0,
                                            !.tl.idx = 0])
    ELSE s

---------------------------------------------------------------------------
(* Timer aging *)

\* the decrement without its floor at 0
age_unclamped(v, d) == v - d

\* (v - dt).max(0.0)
age(v, d) == Max(v - d, 0)

\* An Option<f32> timer: decremented, floored at 0, cleared when it is 0.
age_option(o, d) ==
    IF o = None THEN None
    ELSE IF age(Unwrap(o), d) = 0 THEN None ELSE Some(age(Unwrap(o), d))

\* tick_combat_timers that takes the buffered intent and never puts it back
tick_combat_timers_takes_buffer(c, d) ==
    [c EXCEPT
       !.gcd_remaining = age(c.gcd_remaining, d),
       !.cast = IF c.cast = None THEN None
                ELSE Some([Unwrap(c.cast) EXCEPT
                             !.remaining = IF Unwrap(c.cast).remaining - d < 0 THEN 0
                                           ELSE Unwrap(c.cast).remaining - d]),
       !.ability_cds = [k \in DOMAIN c.ability_cds |-> age(c.ability_cds[k], d)],
       !.buffer = None,
       !.muddled = age_option(c.muddled, d),
       !.hud_shake_remaining = IF c.hud_shake_remaining > 0
                               THEN age(c.hud_shake_remaining, d)
                               ELSE c.hud_shake_remaining,
       !.ani_lock_remaining = IF c.ani_lock_remaining > 0
                              THEN age(c.ani_lock_remaining, d)
                              ELSE c.ani_lock_remaining,
       !.swiftcast_remaining = age_option(c.swiftcast_remaining, d),
       !.raging_remaining = age_option(c.raging_remaining, d)]

\* tick_combat_timers that removes a cast whose remaining reaches 0
tick_combat_timers_ends_cast(c, d) ==
    [c EXCEPT
       !.gcd_remaining = age(c.gcd_remaining, d),
       !.cast = IF c.cast = None \/ Unwrap(c.cast).remaining - d <= 0 THEN None
                ELSE Some([Unwrap(c.cast) EXCEPT
                             !.remaining = IF Unwrap(c.cast).remaining - d < 0 THEN 0
                                           ELSE Unwrap(c.cast).remaining - d]),
       !.ability_cds = [k \in DOMAIN c.ability_cds |-> age(c.ability_cds[k], d)],
       !.buffer = IF c.buffer = None THEN None
                  ELSE IF Unwrap(c.buffer).left - d > 0
                       THEN Some([Unwrap(c.buffer) EXCEPT !.left = Unwrap(c.buffer).left - d])
                       ELSE None,
       !.muddled = age_option(c.muddled, d),
       !.hud_shake_remaining = IF c.hud_shake_remaining > 0
                               THEN age(c.hud_shake_remaining, d)
                               ELSE c.hud_shake_remaining,
       !.ani_lock_remaining = IF c.ani_lock_remaining > 0
                              THEN age(c.ani_lock_remaining, d)
                              ELSE c.ani_lock_remaining,
       !.swiftcast_remaining = age_option(c.swiftcast_remaining, d),
       !.raging_remaining = age_option(c.raging_remaining, d)]

\* tick_combat_timers that drops the queued ability when the rhythm clock clears
tick_combat_timers_expires_queue(c, d) ==
    [c EXCEPT
       !.gcd_remaining = age(c.gcd_remaining, d),
       !.cast = IF c.cast = None THEN None
                ELSE Some([Unwrap(c.cast) EXCEPT
                             !.remaining = IF Unwrap(c.cast).remaining - d < 0 THEN 0
                                           ELSE Unwrap(c.cast).remaining - d]),
       !.ability_cds = [k \in DOMAIN c.ability_cds |-> age(c.ability_cds[k], d)],
       !.buffer = IF c.buffer = None THEN None
                  ELSE IF Unwrap(c.buffer).left - d > 0
                       THEN Some([Unwrap(c.buffer) EXCEPT !.left = Unwrap(c.buffer).left - d])
                       ELSE None,
       !.muddled = age_option(c.muddled, d),
       !.gcd_queue = IF c.gcd_remaining - d <= 0 THEN None ELSE c.gcd_queue,
       !.hud_shake_remaining = IF c.hud_shake_remaining > 0
                               THEN age(c.hud_shake_remaining, d)
                               ELSE c.hud_shake_remaining,
       !.ani_lock_remaining = IF c.ani_lock_remaining > 0
                              THEN age(c.ani_lock_remaining, d)
                              ELSE c.ani_lock_remaining,
       !.swiftcast_remaining = age_option(c.swiftcast_remaining, d),
       !.raging_remaining = age_option(c.raging_remaining, d)]

\* tick_combat_timers that does not age the per-ability cooldowns
tick_combat_timers_keeps_cds(c, d) ==
    [c EXCEPT
       !.gcd_remaining = age(c.gcd_remaining, d),
       !.cast = IF c.cast = None THEN None
                ELSE Some([Unwrap(c.cast) EXCEPT
                             !.remaining = IF Unwrap(c.cast).remaining - d < 0 THEN 0
                                           ELSE Unwrap(c.cast).remaining - d]),
       !.buffer = IF c.buffer = None THEN None
                  ELSE IF Unwrap(c.buffer).left - d > 0
                       THEN Some([Unwrap(c.buffer) EXCEPT !.left = Unwrap(c.buffer).left - d])
                       ELSE None,
       !.muddled = age_option(c.muddled, d),
       !.hud_shake_remaining = IF c.hud_shake_remaining > 0
                               THEN age(c.hud_shake_remaining, d)
                               ELSE c.hud_shake_remaining,
       !.ani_lock_remaining = IF c.ani_lock_remaining > 0
                              THEN age(c.ani_lock_remaining, d)
                              ELSE c.ani_lock_remaining,
       !.swiftcast_remaining = age_option(c.swiftcast_remaining, d),
       !.raging_remaining = age_option(c.raging_remaining, d)]

tick_combat_timers(c, d) ==
    [c EXCEPT
       !.gcd_remaining = age(c.gcd_remaining, d),
       !.cast = IF c.cast = None THEN None
                ELSE Some([Unwrap(c.cast) EXCEPT
                             !.remaining = IF Unwrap(c.cast).remaining - d < 0 THEN 0
                                           ELSE Unwrap(c.cast).remaining - d]),
       !.ability_cds = [k \in DOMAIN c.ability_cds |-> age(c.ability_cds[k], d)],
       !.buffer = IF c.buffer = None THEN None
                  ELSE IF Unwrap(c.buffer).left - d > 0
                       THEN Some([Unwrap(c.buffer) EXCEPT !.left = Unwrap(c.buffer).left - d])
                       ELSE None,
       !.muddled = age_option(c.muddled, d),
       !.hud_shake_remaining = IF c.hud_shake_remaining > 0
                               THEN age(c.hud_shake_remaining, d)
                               ELSE c.hud_shake_remaining,
       !.ani_lock_remaining = IF c.ani_lock_remaining > 0
                              THEN age(c.ani_lock_remaining, d)
                              ELSE c.ani_lock_remaining,
       !.swiftcast_remaining = age_option(c.swiftcast_remaining, d),
       !.raging_remaining = age_option(c.raging_remaining, d)]

---------------------------------------------------------------------------
(* The systems *)

(* Inputs.  A run draws its frame times and key presses from one class:    *)
(*   wide   any two keys at once, few frames;                              *)
(*   solo   one key per frame, one frame more;                             *)
(*   weave  one of five keys per frame and frame times of 0.05 s around    *)
(*          the end of the rhythm window, deeper;                          *)
(*   long   frame times of seconds, which reach the whole enemy timeline   *)
(*          and the expiry of the buffs;                                   *)
(*   scenario_a  an instant rhythm ability in the first frame (t = 0), no  *)
(*          key until a rhythm key at t = 2.4 s, none after it, and frame  *)
(*          times that split the time into ticks with boundaries at 2.4 s  *)
(*          and 2.5 s; the session is not re-entered;                      *)
(*   overlap  Strike and WeaveDash, alone or together, and frame times     *)
(*          that end the rhythm window inside an animation lock, so that   *)
(*          one ability can sit in the queue and in the buffer at once;    *)
(*   buffs  one key per frame, frame times that let the damage buff run out *)
(*          during a cast and let the timeline's debuff meet Cleanse;      *)
(*   castbuf  a cast and an off-rhythm ability, with frame times that let  *)
(*          an intent buffered late in the cast outlast its completion;    *)
(*   live   one key per frame in the first frames, then frames without     *)
(*          end and without keys, every frame time > 0; the session is     *)
(*          not re-entered.                                                *)

Script(kind, fr, nk, ids, dts) ==
    [kind |-> kind, frames |-> fr, nkeys |-> nk, ids |-> ids, dts |-> dts]

GcdIds == {id \in AbilityIds : AbilityBook(id).triggers_gcd}
OgcdIds == AbilityIds \ GcdIds
CastIds == {id \in AbilityIds : AbilityBook(id).cast_time > 0}

Scripts ==
    { Script("wide", WideFrames, 2, AbilityIds, {0, 2, 6, 12, 48, 50}),
      Script("solo", SoloFrames, 1, AbilityIds, {0, 2, 6, 12, 48, 50}),
      Script("weave", WeaveFrames, 1,
             {"Strike", "WeaveDash", "WeaveSong", "Cleanse", "Jump"}, {1, 12, 49}),
      Script("long", LongFrames, 1,
             {"Strike", "Fireball", "Cleanse", "Swiftcast", "Raging"},
             {60, 200, 250, 500}),
      Script("scenario_a", ScenarioFrames, 1, GcdIds, {1, 2, 12, 24, 46, 48}),
      Script("overlap", OverlapFrames, 2, {"Strike", "WeaveDash"}, {6, 48}),
      Script("buffs", BuffFrames, 1,
             {"Strike", "Fireball", "Raging", "Cleanse"}, {12, 48, 280}),
      Script("castbuf", CastBufFrames, 1, {"Fireball", "WeaveDash"}, {1, 6, 24}),
      Script("live", LiveFrames, 1,
             {"Strike", "Fireball", "Heal", "WeaveDash"}, {12, 30}) }

\* The frame times of all classes, and 0.
AgingDTs == {0} \cup UNION {sc.dts : sc \in Scripts}

\* The run goes on without end; frames stops counting at script.frames.
Live == script.kind = "live"

\* Scenario A: the time the rhythm clock, armed at t = 0, clears (gcd_length,
\* 2.5 s) and the time of the request, 0.1 s before it (2.4 s).
ClearsAt == CombatStateDefault.gcd_length
RequestAt == ClearsAt - 2

\* In scenario A the timeline's t is the time since the first frame.
Now == timeline.t + dt

\* time.delta_secs()
DTs ==
    IF script.kind = "scenario_a"
    THEN IF frames = 0 THEN {0}
         ELSE {d \in script.dts :
                 \/ timeline.t < RequestAt /\ timeline.t + d <= RequestAt
                 \/ timeline.t >= RequestAt /\ timeline.t + d <= ClearsAt}
    ELSE script.dts

\* keys.just_pressed(kc), for the keys of the mapping
KeySets ==
    IF script.kind = "scenario_a"
    THEN IF frames = 1 THEN {{"Strike"}, {"Burn"}}
         ELSE IF Now = RequestAt THEN {{id} : id \in script.ids}
         ELSE {{}}
    ELSE IF Live /\ frames >= script.frames THEN {{}}
    ELSE {ks \in SUBSET script.ids : Cardinality(ks) <= script.nkeys}

\* The first pressed key in the order of the mapping.
first_key(ks) ==
    mapping[CHOOSE i \in 1..Len(mapping) :
                /\ mapping[i] \in ks
                /\ \A j \in 1..(i - 1) : mapping[j] \notin ks]

Write(w) ==
    /\ combat' = w.combat
    /\ dmg_events' = w.dmg
    /\ dot_events' = w.dot
    /\ requested' = w.requested
    /\ started' = w.started
    /\ resolved' = w.resolved

\* The enemy as spawn_enemy_and_ui spawns it, no event and no command pending.
WorldDefault ==
    /\ health = [current |-> 2000, max |-> 2000]
    /\ dot = None
    /\ dmg_unread = << >>
    /\ dot_unread = << >>
    /\ commands = [apply |-> << >>, tick |-> << >>]
    /\ ran = {}
    /\ dot_age = None
    /\ dot_emitted = 0

Init ==
    /\ combat = CombatStateDefault
    /\ timeline = EnemyTimelineDefault
    /\ dmg_events = << >>
    /\ dot_events = << >>
    /\ shake_events = << >>
    /\ requested = << >>
    /\ started = << >>
    /\ resolved = << >>
    /\ pc = "tick_combat_timers"
    /\ dt = 0
    /\ keys = {}
    /\ frames = 0
    /\ script \in Scripts
    /\ WorldDefault
    /\ buffered_in_cast = FALSE

\* try_use_or_buffer reaches its last line: the intent goes to the buffer.
BuffersIntent(c, id) == ~can_use_now(c, id) /\ ~queues_next_gcd(c, id)

\* The buffered intent, while it stays, keeps the mark of where it came from.
KeepsOrigin == buffered_in_cast' = (buffered_in_cast /\ IsSome(combat'.buffer))

\* OnEnter(GameState::Playing)
ResetCombat ==
    /\ pc = "tick_combat_timers"
    /\ script.kind \notin {"scenario_a", "live"}
    /\ frames < script.frames
    /\ frames' = frames + 1
    /\ combat' = CombatStateDefault
    /\ UNCHANGED <<timeline, dmg_events, dot_events, shake_events,
                   requested, started, resolved, pc, dt, keys, script, world_vars>>
    /\ KeepsOrigin

\* A new frame: the event buffers of the frame before are dropped.
TickCombatTimers ==
    /\ pc = "tick_combat_timers"
    /\ Live \/ frames < script.frames
    /\ \E d \in DTs :
         /\ dt' = d
         /\ combat' = tick_combat_timers(combat, d)
    /\ frames' = IF Live THEN Min(frames + 1, script.frames) ELSE frames + 1
    /\ dmg_events' = << >>
    /\ dot_events' = << >>
    /\ requested' = << >>
    /\ started' = << >>
    /\ resolved' = << >>
    /\ pc' = "process_cast_completion"
    /\ UNCHANGED <<timeline, shake_events, keys, script, world_vars>>
    /\ KeepsOrigin

\* process_cast_completion that resolves the ability and leaves the cast
ProcessCastCompletion_keeps_cast ==
    /\ pc = "process_cast_completion"
    /\ IF IsSome(combat.cast) /\ Unwrap(combat.cast).remaining <= 0
       THEN Write(resolve_ability(Unwrap(combat.cast).ability, World))
       ELSE UNCHANGED <<combat, dmg_events, dot_events, requested, started, resolved>>
    /\ pc' = "handle_ability_input"
    /\ UNCHANGED <<timeline, shake_events, dt, keys, frames, script, world_vars, buffered_in_cast>>

ProcessCastCompletion ==
    /\ pc = "process_cast_completion"
    /\ IF IsSome(combat.cast) /\ Unwrap(combat.cast).remaining <= 0
       THEN LET w == resolve_ability(Unwrap(combat.cast).ability, World)
            IN  Write([w EXCEPT !.combat.cast = None])
       ELSE UNCHANGED <<combat, dmg_events, dot_events, requested, started, resolved>>
    /\ pc' = "handle_ability_input"
    /\ UNCHANGED <<timeline, shake_events, dt, keys, frames, script, world_vars, buffered_in_cast>>

\* One iteration of the loop over the key mapping, for the next pressed key.
InputStep(ks) ==
    /\ IF ks = {}
       THEN /\ UNCHANGED <<combat, dmg_events, dot_events, requested, started, resolved>>
            /\ keys' = {}
            /\ UNCHANGED buffered_in_cast
       ELSE /\ Write(try_use_or_buffer(first_key(ks), World))
            /\ keys' = ks \ {first_key(ks)}
            /\ buffered_in_cast' =
                  IF BuffersIntent(combat, first_key(ks)) THEN IsSome(combat.cast)
                  ELSE buffered_in_cast
    /\ pc' = IF keys' = {} THEN "process_buffered_ability" ELSE "input_loop"
    /\ UNCHANGED <<timeline, shake_events, dt, frames, script, world_vars>>

HandleAbilityInput ==
    \/ /\ pc = "handle_ability_input"
       /\ \E ks \in KeySets : InputStep(ks)
    \/ /\ pc = "input_loop"
       /\ InputStep(keys)

\* process_buffered_ability that starts the ability and leaves it in the buffer
ProcessBufferedAbility_keeps_buffer ==
    /\ pc = "process_buffered_ability"
    /\ IF combat.cast = None /\ IsSome(combat.buffer)
          /\ can_use_now(combat, Unwrap(combat.buffer).id)
       THEN Write(start_cast_or_instant(Unwrap(combat.buffer).id, World))
       ELSE UNCHANGED <<combat, dmg_events, dot_events, requested, started, resolved>>
    /\ pc' = "process_gcd_queue"
    /\ UNCHANGED <<timeline, shake_events, dt, keys, frames, script, world_vars>>
    /\ KeepsOrigin

ProcessBufferedAbility ==
    /\ pc = "process_buffered_ability"
    /\ IF combat.cast = None /\ IsSome(combat.buffer)
          /\ can_use_now(combat, Unwrap(combat.buffer).id)
       THEN Write(start_cast_or_instant(Unwrap(combat.buffer).id,
                                        [World EXCEPT !.combat.buffer = None]))
       ELSE UNCHANGED <<combat, dmg_events, dot_events, requested, started, resolved>>
    /\ pc' = "process_gcd_queue"
    /\ UNCHANGED <<timeline, shake_events, dt, keys, frames, script, world_vars>>
    /\ KeepsOrigin

\* process_gcd_queue without the return while a cast is active
ProcessGcdQueue_during_cast ==
    /\ pc = "process_gcd_queue"
    /\ IF IsSome(combat.gcd_queue)
          /\ AbilityBook(Unwrap(combat.gcd_queue)).triggers_gcd
          /\ combat.gcd_remaining <= 0
          /\ combat.ani_lock_remaining <= 0
       THEN Write(start_cast_or_instant(Unwrap(combat.gcd_queue),
                                        [World EXCEPT !.combat.gcd_queue = None]))
       ELSE UNCHANGED <<combat, dmg_events, dot_events, requested, started, resolved>>
    /\ pc' = "run_enemy_timeline"
    /\ UNCHANGED <<timeline, shake_events, dt, keys, frames, script, world_vars, buffered_in_cast>>

\* process_gcd_queue without clearing the queue when it starts the ability
ProcessGcdQueue_keeps_queue ==
    /\ pc = "process_gcd_queue"
    /\ IF combat.cast = None /\ IsSome(combat.gcd_queue)
          /\ AbilityBook(Unwrap(combat.gcd_queue)).triggers_gcd
          /\ combat.gcd_remaining <= 0
          /\ combat.ani_lock_remaining <= 0
       THEN Write(start_cast_or_instant(Unwrap(combat.gcd_queue), World))
       ELSE UNCHANGED <<combat, dmg_events, dot_events, requested, started, resolved>>
    /\ pc' = "run_enemy_timeline"
    /\ UNCHANGED <<timeline, shake_events, dt, keys, frames, script, world_vars, buffered_in_cast>>

ProcessGcdQueue ==
    /\ pc = "process_gcd_queue"
    /\ IF combat.cast = None /\ IsSome(combat.gcd_queue)
          /\ AbilityBook(Unwrap(combat.gcd_queue)).triggers_gcd
          /\ combat.gcd_remaining <= 0
          /\ combat.ani_lock_remaining <= 0
       THEN Write(start_cast_or_instant(Unwrap(combat.gcd_queue),
                                        [World EXCEPT !.combat.gcd_queue = None]))
       ELSE UNCHANGED <<combat, dmg_events, dot_events, requested, started, resolved>>
    /\ pc' = "run_enemy_timeline"
    /\ UNCHANGED <<timeline, shake_events, dt, keys, frames, script, world_vars, buffered_in_cast>>

RunEnemyTimeline ==
    /\ pc = "run_enemy_timeline"
    /\ LET tl0 == ensure_default_events(timeline)
           s == timeline_loop([tl |-> [tl0 EXCEPT !.t = tl0.t + dt],
                               combat |-> combat,
                               shakes |-> shake_events])
       IN  /\ timeline' = s.tl
           /\ combat' = s.combat
           /\ shake_events' = s.shakes
    /\ pc' = "apply_hud_shake"
    /\ UNCHANGED <<dmg_events, dot_events, requested, started, resolved, dt, keys, frames, script, world_vars, buffered_in_cast>>

RECURSIVE max_of(_, _)
max_of(v, durs) ==
    IF durs = << >> THEN v ELSE max_of(Max(v, Head(durs)), Tail(durs))

ApplyHudShake ==
    /\ pc = "apply_hud_shake"
    /\ combat' = [combat EXCEPT
                    !.hud_shake_remaining = max_of(combat.hud_shake_remaining, shake_events)]
    /\ shake_events' = << >>
    /\ pc' = "tick_combat_timers"
    /\ dt' = 0
    /\ UNCHANGED <<timeline, dmg_events, dot_events, requested, started, resolved, keys, frames, script, world_vars, buffered_in_cast>>

Next ==
    \/ ResetCombat
    \/ TickCombatTimers
    \/ ProcessCastCompletion
    \/ HandleAbilityInput
    \/ ProcessBufferedAbility
    \/ ProcessGcdQueue
    \/ RunEnemyTimeline
    \/ ApplyHudShake

Spec == Init /\ [][Next]_vars

\* The schedule runs every system of the chain in every frame, and the app
\* keeps producing frames: a run that can take a step takes one.
LiveSpec == Spec /\ WF_vars(Next)

---------------------------------------------------------------------------
(* The enemy: the systems of WorldPlugin                                   *)
(*                                                                         *)
(* handle_damage_events, handle_apply_dot_events and tick_dots are one     *)
(* unordered tuple of the Update schedule: each runs once per frame, in    *)
(* any order. The commands they queue (insert and remove of DotEffect) are *)
(* applied after all three have run. The events of combat are written in   *)
(* PreUpdate, before any of them.                                          *)

\* What resolve_ability writes for an ability, with the damage buff or not.
Written(id, raging) ==
    LET c == [CombatStateDefault EXCEPT
                !.raging_remaining = IF raging THEN Some(300) ELSE None]
        w == resolve_ability(id, [combat |-> c, dmg |-> << >>, dot |-> << >>,
                                  requested |-> << >>, started |-> << >>,
                                  resolved |-> << >>])
    IN  [dmg |-> w.dmg, dot |-> w.dot]

NoEvents == [dmg |-> << >>, dot |-> << >>]

\* The ApplyDotEvent of Burn.
BurnDot == Written("Burn", FALSE).dot[1]

\* Scenario D ends 0.4 s after the duration of the DoT.
ScenarioDEnd == BurnDot.duration + 8

(* Input classes of the enemy's systems:                                   *)
(*   world       in each frame combat writes nothing, a Fireball under     *)
(*               Raging, or Burn; frame times of 0.4 s, 12 s and 14 s;     *)
(*   scenario_d  Burn in the first frame and nothing afterwards; frame     *)
(*               times > 0 that add up to 12.4 s.                          *)
WorldScripts ==
    { Script("world", WorldFrames, 1, {"Fireball", "Burn"}, {8, 240, 280}),
      Script("scenario_d", WorldFrames, 1, {"Burn"},
             {4, 8, 20, 36, 100, 240, 248}) }

ScenarioD == script.kind = "scenario_d"

\* time.delta_secs() and the events of combat, for one frame
WorldInputs ==
    IF ScenarioD
    THEN IF dot_age = None
         THEN {[dt |-> 0, ev |-> Written("Burn", FALSE)]}
         ELSE {[dt |-> d, ev |-> NoEvents] :
                  d \in {d \in script.dts : Unwrap(dot_age) + d <= ScenarioDEnd}}
    ELSE IF frames >= script.frames THEN {}
    ELSE {[dt |-> d, ev |-> e] :
             d \in script.dts,
             e \in {NoEvents} \cup {Written(id, TRUE) : id \in script.ids}}

WorldSystems == {"handle_damage_events", "handle_apply_dot_events", "tick_dots"}

\* handle_damage_events without the floor
RECURSIVE handle_damage_no_floor(_, _)
handle_damage_no_floor(hp, amounts) ==
    IF amounts = << >> THEN hp
    ELSE handle_damage_no_floor([hp EXCEPT !.current = @ - Head(amounts)],
                                Tail(amounts))

\* hp.current after the events read, in their order
RECURSIVE handle_damage(_, _)
handle_damage(hp, amounts) ==
    IF amounts = << >> THEN hp
    ELSE handle_damage([hp EXCEPT !.current = Max(@ - Head(amounts), 0)],
                       Tail(amounts))

\* The component an ApplyDotEvent inserts.
DotEffect(e) ==
    [remaining |-> e.duration, tick_every |-> e.tick_every,
     tick_accum |-> 0, dps |-> e.dps]

\* The while loop of tick_dots: accum after it and the events written.
RECURSIVE tick_loop(_, _)
tick_loop(d, out) ==
    IF d.tick_accum >= d.tick_every
    THEN tick_loop([d EXCEPT !.tick_accum = @ - d.tick_every], Append(out, d.dps))
    ELSE [dot |-> d, out |-> out]

\* tick_dots that writes at most one DamageEvent per frame
tick_dots_single_tick(d, delta) ==
    LET d1 == [d EXCEPT !.remaining = @ - delta, !.tick_accum = @ + delta]
        hit == d1.tick_accum >= d1.tick_every
        d2 == IF hit THEN [d1 EXCEPT !.tick_accum = @ - d1.tick_every] ELSE d1
    IN  [dot |-> d2, out |-> IF hit THEN <<d1.dps>> ELSE << >>,
         cmds |-> IF d2.remaining <= 0 THEN <<[op |-> "remove"]>> ELSE << >>]

\* tick_dots on the component: the component after it, the DamageEvents
\* written and the commands queued.
tick_dots(d, delta) ==
    LET d1 == [d EXCEPT !.remaining = @ - delta, !.tick_accum = @ + delta]
        l  == tick_loop(d1, << >>)
    IN  [dot |-> l.dot, out |-> l.out,
         cmds |-> IF l.dot.remaining <= 0 THEN <<[op |-> "remove"]>> ELSE << >>]

\* One queue of commands applied to the component, in the queue's order.
RECURSIVE apply_commands(_, _)
apply_commands(d, cmds) ==
    IF cmds = << >> THEN d
    ELSE apply_commands(IF Head(cmds).op = "remove" THEN None
                        ELSE Some(Head(cmds).component),
                        Tail(cmds))

WorldInit ==
    /\ combat = CombatStateDefault
    /\ timeline = EnemyTimelineDefault
    /\ dmg_events = << >>
    /\ dot_events = << >>
    /\ shake_events = << >>
    /\ requested = << >>
    /\ started = << >>
    /\ resolved = << >>
    /\ pc = "pre_update"
    /\ dt = 0
    /\ keys = {}
    /\ frames = 0
    /\ script \in WorldScripts
    /\ WorldDefault
    /\ buffered_in_cast = FALSE

UnchangedCombat ==
    UNCHANGED <<combat, timeline, dmg_events, dot_events, shake_events,
                requested, started, resolved, keys, script, buffered_in_cast>>

\* A frame begins: time advances and combat's events of the frame are there.
WorldFrame ==
    /\ pc = "pre_update"
    /\ \E in \in WorldInputs :
         /\ dt' = in.dt
         /\ dmg_unread' = dmg_unread \o in.ev.dmg
         /\ dot_unread' = dot_unread \o in.ev.dot
         /\ dot_age' = IF IsSome(dot_age) THEN Some(Unwrap(dot_age) + in.dt) ELSE None
    /\ frames' = IF ScenarioD THEN Min(frames + 1, script.frames) ELSE frames + 1
    /\ ran' = {}
    /\ pc' = "update"
    /\ UNCHANGED <<health, dot, commands, dot_emitted>>
    /\ UnchangedCombat

HandleDamageEvents ==
    /\ pc = "update"
    /\ "handle_damage_events" \notin ran
    /\ health' = handle_damage(health, dmg_unread)
    /\ dmg_unread' = << >>
    /\ ran' = ran \cup {"handle_damage_events"}
    /\ UNCHANGED <<dot, dot_unread, commands, dot_age, dot_emitted, pc, dt, frames>>
    /\ UnchangedCombat

HandleApplyDotEvents ==
    /\ pc = "update"
    /\ "handle_apply_dot_events" \notin ran
    /\ commands' = [commands EXCEPT
                      !.apply = [i \in 1..Len(dot_unread) |->
                                   [op |-> "insert",
                                    component |-> DotEffect(dot_unread[i])]]]
    /\ dot_unread' = << >>
    /\ ran' = ran \cup {"handle_apply_dot_events"}
    /\ UNCHANGED <<health, dot, dmg_unread, dot_age, dot_emitted, pc, dt, frames>>
    /\ UnchangedCombat

TickDots ==
    /\ pc = "update"
    /\ "tick_dots" \notin ran
    /\ IF IsSome(dot)
       THEN LET r == tick_dots(Unwrap(dot), dt)
            IN  /\ dot' = Some(r.dot)
                /\ dmg_unread' = dmg_unread \o r.out
                /\ commands' = [commands EXCEPT !.tick = r.cmds]
                /\ dot_emitted' = dot_emitted + Len(r.out)
       ELSE UNCHANGED <<dot, dmg_unread, commands, dot_emitted>>
    /\ ran' = ran \cup {"tick_dots"}
    /\ UNCHANGED <<health, dot_unread, dot_age, pc, dt, frames>>
    /\ UnchangedCombat

\* The commands of the frame are applied, one system's queue after the
\* other's; the schedule does not order the two systems.
ApplyDeferred ==
    /\ pc = "update"
    /\ ran = WorldSystems
    /\ \E first \in {"apply", "tick"} :
         LET second == IF first = "apply" THEN "tick" ELSE "apply"
         IN  dot' = apply_commands(apply_commands(dot, commands[first]),
                                   commands[second])
    /\ IF commands.apply # << >>
       THEN dot_age' = Some(0) /\ dot_emitted' = 0
       ELSE UNCHANGED <<dot_age, dot_emitted>>
    /\ commands' = [apply |-> << >>, tick |-> << >>]
    /\ pc' = "pre_update"
    /\ UNCHANGED <<health, dmg_unread, dot_unread, ran, dt, frames>>
    /\ UnchangedCombat

WorldNext ==
    \/ WorldFrame
    \/ HandleDamageEvents
    \/ HandleApplyDotEvents
    \/ TickDots
    \/ ApplyDeferred

WorldSpec == WorldInit /\ [][WorldNext]_vars

---------------------------------------------------------------------------
(* What a step did, read from the call logs *)

\* try_use_or_buffer, start_cast_or_instant, resolve_ability was called in the step
RequestStep == Len(requested') = Len(requested) + 1
StartStep == Len(started') = Len(started) + 1
ResolveStep == Len(resolved') = Len(resolved) + 1

LastRequested == requested[Len(requested)]
LastStarted == started[Len(started)]
LastResolved == resolved[Len(resolved)]

\* the step is reset_combat
ResetStep == pc = "tick_combat_timers" /\ pc' = "tick_combat_timers" /\ frames' # frames

InputPhases == {"handle_ability_input", "input_loop"}

---------------------------------------------------------------------------
(* Claims *)

\* C1: a rhythm-consuming ability is started (by a request, the buffer re-check
\* or the queue re-check) only from a state with gcd_remaining = 0, no cast
\* and ani_lock_remaining = 0.
C1_GcdStartGate ==
    [][ (StartStep /\ LastStarted'.id \in GcdIds) =>
            /\ combat.gcd_remaining = 0
            /\ combat.cast = None
            /\ combat.ani_lock_remaining = 0
            /\ pc \in InputPhases \cup {"process_buffered_ability", "process_gcd_queue"}
      ]_vars

\* A rhythm ability that the buffer re-check started.
C1_Witness ==
    \E i \in 1..Len(started) :
        started[i].id \in GcdIds /\ started[i].by = "process_buffered_ability"

\* C2: an off-rhythm ability is started only by a request or the buffer
\* re-check, from a state with no cast, gcd_remaining > 0,
\* ani_lock_remaining = 0 and weaves_in_current_gcd < 2; the queue re-check
\* and cast completion never start or resolve one.
C2_OgcdStartGate ==
    [][ ((StartStep /\ LastStarted'.id \in OgcdIds)
         \/ (ResolveStep /\ LastResolved' \in OgcdIds)) =>
            /\ combat.cast = None
            /\ combat.gcd_remaining > 0
            /\ combat.ani_lock_remaining = 0
            /\ combat.weaves_in_current_gcd < 2
            /\ pc \in InputPhases \cup {"process_buffered_ability"}
      ]_vars

\* An off-rhythm ability that the buffer re-check started.
C2_Witness ==
    \E i \in 1..Len(started) :
        started[i].id \in OgcdIds /\ started[i].by = "process_buffered_ability"

\* C3: while a cast is active no ability is eligible, no step starts an
\* ability, and the cast keeps its ability and total until cast completion
\* removes it at remaining = 0 (or the session is reset).
C3_CastBlocksStarts ==
    /\ [](IsSome(combat.cast) => \A id \in AbilityIds : ~can_use_now(combat, id))
    /\ [][ (IsSome(combat.cast) /\ ~ResetStep) =>
             /\ ~StartStep
             /\ IF IsSome(combat'.cast)
                THEN /\ Unwrap(combat'.cast).ability = Unwrap(combat.cast).ability
                     /\ Unwrap(combat'.cast).total = Unwrap(combat.cast).total
                ELSE /\ pc = "process_cast_completion"
                     /\ Unwrap(combat.cast).remaining = 0
       ]_vars

\* A frame in which a request was made during a cast and both re-checks ran
\* with their slots filled, and nothing started.
C3_Witness ==
    /\ pc = "run_enemy_timeline"
    /\ IsSome(combat.cast)
    /\ requested # << >>
    /\ IsSome(combat.buffer)
    /\ IsSome(combat.gcd_queue)
    /\ started = << >>

\* C4: every duration stays within [0, its maximum]: gcd_remaining in
\* [0, 2.5], ani_lock_remaining in [0, 0.6], each cooldown in [0, the catalog
\* cooldown], buffer time in (0, 0.4], cast.remaining in [0, cast.total],
\* swiftcast <= 10, raging <= 15, muddled <= 8, hud_shake_remaining in [0, 2].
C4_DurationsInRange ==
    /\ combat.gcd_remaining \in 0..50
    /\ combat.ani_lock_remaining \in 0..12
    /\ \A id \in DOMAIN combat.ability_cds :
          combat.ability_cds[id] \in 0..AbilityBook(id).cooldown
    /\ IsSome(combat.buffer) => Unwrap(combat.buffer).left \in 1..8
    /\ IsSome(combat.cast) =>
          Unwrap(combat.cast).remaining \in 0..Unwrap(combat.cast).total
    /\ IsSome(combat.swiftcast_remaining) => Unwrap(combat.swiftcast_remaining) \in 0..200
    /\ IsSome(combat.raging_remaining) => Unwrap(combat.raging_remaining) \in 0..300
    /\ IsSome(combat.muddled) => Unwrap(combat.muddled) \in 0..160
    /\ combat.hud_shake_remaining \in 0..40

\* A tick longer than the whole cast has just aged the cast to zero.
C4_Witness ==
    /\ pc = "process_cast_completion"
    /\ IsSome(combat.cast)
    /\ dt > Unwrap(combat.cast).total
    /\ Unwrap(combat.cast).remaining = 0

\* C5 (Scenario C): an off-rhythm ability requested with the rhythm clock
\* running, no cast, no animation lock and its cooldown ready, after two
\* weaves in this window, executes: the counter reports 3 and clipped is set.
C5_ThirdWeaveExecutes ==
    [][ ( /\ RequestStep
          /\ LastRequested' \in OgcdIds
          /\ combat.gcd_remaining > 0
          /\ combat.cast = None
          /\ combat.ani_lock_remaining = 0
          /\ cd_of(combat, LastRequested') = 0
          /\ combat.weaves_in_current_gcd = 2 ) =>
            /\ StartStep
            /\ combat'.weaves_in_current_gcd = 3
            /\ combat'.clipped
      ]_vars

\* C6: weaves_in_current_gcd > 2 implies clipped; the resolution of a
\* rhythm-consuming ability sets the counter to 0 as it re-arms gcd_remaining
\* to gcd_length, and no other step but the session reset lowers it.
C6_WeavesResetAtRearm ==
    /\ [](combat.weaves_in_current_gcd > 2 => combat.clipped)
    /\ [][ (ResolveStep /\ LastResolved' \in GcdIds) =>
             /\ combat'.weaves_in_current_gcd = 0
             /\ combat'.gcd_remaining = combat.gcd_length ]_vars
    /\ [][ combat'.weaves_in_current_gcd < combat.weaves_in_current_gcd =>
             \/ ResolveStep /\ LastResolved' \in GcdIds
                /\ combat'.gcd_remaining = combat.gcd_length
             \/ ResetStep ]_vars

\* A rhythm ability has just resolved in a session in which an off-rhythm
\* ability was used before: the counter is back at 0 with the clock re-armed.
C6_Witness ==
    /\ resolved # << >>
    /\ LastResolved \in GcdIds
    /\ combat.weaves_in_current_gcd = 0
    /\ combat.gcd_remaining = combat.gcd_length
    /\ \E id \in OgcdIds : cd_of(combat, id) > 0

\* C7, as stated: an ineligible rhythm request is queued (buffer untouched)
\* whenever an active cast has remaining <= 0.6 or 0 <= gcd_remaining <= 0.6.
C7_QueuedAtOrBelowWindow ==
    [][ ( /\ RequestStep
          /\ LastRequested' \in GcdIds
          /\ ~can_use_now(combat, LastRequested')
          /\ \/ IsSome(combat.cast) /\ Unwrap(combat.cast).remaining <= 12
             \/ combat.gcd_remaining \in 0..12 ) =>
            /\ combat'.gcd_queue = Some(LastRequested')
            /\ combat'.buffer = combat.buffer
      ]_vars

\* C7, amended: an ineligible rhythm request is queued, overwriting the queue
\* and leaving the buffer untouched, exactly when an active cast has
\* remaining <= 0.6 or the rhythm clock is running with 0 < gcd_remaining <= 0.6;
\* otherwise it goes to the buffer and the queue is untouched.
C7_QueuedInsideWindow ==
    [][ ( /\ RequestStep
          /\ LastRequested' \in GcdIds
          /\ ~can_use_now(combat, LastRequested') ) =>
            IF \/ IsSome(combat.cast) /\ Unwrap(combat.cast).remaining <= 12
               \/ combat.gcd_remaining \in 1..12
            THEN /\ combat'.gcd_queue = Some(LastRequested')
                 /\ combat'.buffer = combat.buffer
            ELSE /\ combat'.gcd_queue = combat.gcd_queue
                 /\ IsSome(combat'.buffer)
                 /\ Unwrap(combat'.buffer).id = LastRequested'
      ]_vars

\* Two rhythm requests of one frame were both queued: the queue holds the later.
C7_Witness ==
    /\ pc = "process_buffered_ability"
    /\ Len(requested) = 2
    /\ requested[1] \in GcdIds /\ requested[2] \in GcdIds
    /\ started = << >>
    /\ combat.buffer = None
    /\ combat.gcd_queue = Some(requested[2])

\* C8: an ineligible request that matches no queue condition (any off-rhythm
\* request, a rhythm request outside the queue window) sets
\* buffer = (ability, 0.4), overwriting, and leaves the queue unchanged.
C8_BufferedWithFixedGrace ==
    [][ ( /\ RequestStep
          /\ ~can_use_now(combat, LastRequested')
          /\ \/ LastRequested' \in OgcdIds
             \/ ~( \/ IsSome(combat.cast) /\ Unwrap(combat.cast).remaining <= 12
                   \/ combat.gcd_remaining \in 1..12 ) ) =>
            /\ combat'.buffer = Some([id |-> LastRequested', left |-> 8])
            /\ combat'.gcd_queue = combat.gcd_queue
      ]_vars

\* Two requests of one frame were both buffered: the buffer holds the later,
\* with the full grace time.
C8_Witness ==
    /\ pc = "process_buffered_ability"
    /\ Len(requested) = 2
    /\ started = << >>
    /\ combat.gcd_queue = None
    /\ combat.buffer = Some([id |-> requested[2], left |-> 8])

\* C9: a request made while the ability is ineligible changes only the buffer
\* or only the queue: every other field of the combat state is unchanged and
\* no event is emitted, nothing is started or resolved.
C9_IneligibleTouchesOneSlot ==
    [][ (RequestStep /\ ~can_use_now(combat, LastRequested')) =>
            /\ \/ combat' = [combat EXCEPT !.buffer = combat'.buffer]
               \/ combat' = [combat EXCEPT !.gcd_queue = combat'.gcd_queue]
            /\ dmg_events' = dmg_events
            /\ dot_events' = dot_events
            /\ started' = started
            /\ resolved' = resolved
      ]_vars

\* An ineligible request has just been queued while the buffer holds an
\* earlier request.
C9_Witness ==
    /\ pc = "process_buffered_ability"
    /\ requested # << >>
    /\ started = << >>
    /\ combat.gcd_queue = Some(LastRequested)
    /\ IsSome(combat.buffer)
    /\ Unwrap(combat.buffer).left < 8

(* Scenario A *)

ScenarioA == script.kind = "scenario_a"

\* What Scenario A holds of the request at 2.4 s and of the ticks up to 2.5 s,
\* but for the state of the clock and the cast after the queue has fired.
ScenarioA_Queued ==
    /\ (ScenarioA /\ pc = "process_buffered_ability" /\ frames > 1
          /\ Now = RequestAt) =>
            /\ Len(requested) = 1
            /\ started = << >>
            /\ combat.gcd_remaining = ClearsAt - RequestAt
            /\ combat.gcd_queue = Some(requested[1])
            /\ combat.buffer = None
    /\ (ScenarioA /\ pc = "run_enemy_timeline" /\ Now >= RequestAt
          /\ Now < ClearsAt) =>
            /\ started = << >>
            /\ IsSome(combat.gcd_queue)
            /\ combat.buffer = None
    /\ (ScenarioA /\ pc = "run_enemy_timeline" /\ Now = ClearsAt) =>
            /\ Len(started) = 1
            /\ started[1].id \in GcdIds
            /\ started[1].by = "process_gcd_queue"
            /\ combat.gcd_queue = None
            /\ combat.buffer = None

\* C10, as stated: Scenario A, and whichever rhythm ability was requested at
\* 2.4 s, gcd_remaining is re-armed to 2.5 in the tick that reaches 2.5 s.
C10_ScenarioA_Rearmed ==
    /\ ScenarioA_Queued
    /\ (ScenarioA /\ pc = "run_enemy_timeline" /\ Now = ClearsAt) =>
            combat.gcd_remaining = combat.gcd_length

\* C10, amended: Scenario A, and in the tick that reaches 2.5 s an instant
\* rhythm ability (Strike, Burn) resolves and re-arms gcd_remaining to 2.5,
\* while one with a cast time (Fireball, Heal) begins its cast and leaves
\* gcd_remaining at 0.
C10_ScenarioA ==
    /\ ScenarioA_Queued
    /\ (ScenarioA /\ pc = "run_enemy_timeline" /\ Now = ClearsAt) =>
            LET id == started[1].id
                ct == AbilityBook(id).cast_time
            IN  IF ct = 0
                THEN /\ resolved = <<id>>
                     /\ combat.cast = None
                     /\ combat.gcd_remaining = combat.gcd_length
                ELSE /\ resolved = << >>
                     /\ combat.cast = Some([ability |-> id, remaining |-> ct, total |-> ct])
                     /\ combat.gcd_remaining = 0

\* Scenario A with the time split into several ticks before 2.4 s and two
\* ticks of 0.05 s after it: the queued Burn has just been started.
C10_Witness ==
    /\ ScenarioA
    /\ pc = "run_enemy_timeline"
    /\ Now = ClearsAt
    /\ dt = 1
    /\ frames >= 5
    /\ started = <<[id |-> "Burn", by |-> "process_gcd_queue"]>>
    /\ combat.gcd_remaining = combat.gcd_length

\* C11: the queue re-check starts the queued ability, and clears the queue in
\* that step, exactly when at the time of the re-check no cast is active,
\* gcd_remaining = 0 and ani_lock_remaining = 0; and once the key presses
\* have ended and time keeps advancing with ticks of dt > 0, an ability in
\* the queue is eventually started by the queue re-check.
C11_QueueFires ==
    /\ [][ (pc = "process_gcd_queue" /\ IsSome(combat.gcd_queue)) =>
             IF combat.cast = None /\ combat.gcd_remaining = 0
                /\ combat.ani_lock_remaining = 0
             THEN /\ StartStep
                  /\ LastStarted' = [id |-> Unwrap(combat.gcd_queue),
                                     by |-> "process_gcd_queue"]
                  /\ combat'.gcd_queue = None
             ELSE /\ ~StartStep
                  /\ combat' = combat ]_vars
    /\ \A id \in GcdIds :
          (Live /\ frames = script.frames /\ combat.gcd_queue = Some(id))
             ~> ( /\ pc = "run_enemy_timeline"
                  /\ started # << >>
                  /\ LastStarted = [id |-> id, by |-> "process_gcd_queue"]
                  /\ combat.gcd_queue = None )

\* In a run without end a queued ability waited for more than one frame
\* after the last key press and has just been started by the queue re-check.
C11_Witness ==
    /\ Live
    /\ frames = script.frames
    /\ pc = "run_enemy_timeline"
    /\ started # << >>
    /\ LastStarted.by = "process_gcd_queue"
    /\ requested = << >>
    /\ combat.gcd_queue = None
    /\ timeline.t > 60

\* C12 (Scenario B and its converse): starting an ability with cast_time > 0
\* while the instant-cast buff is active clears the buff, creates no cast and
\* resolves the ability in the same step; the buff ends in no other way than
\* such a start, the expiry of its timer in the aging step, or a session
\* reset, and the start of an instant ability (other than Swiftcast, which
\* sets it) leaves it unchanged.
C12_SwiftcastConsumed ==
    /\ [][ ( /\ StartStep
             /\ AbilityBook(LastStarted'.id).cast_time > 0
             /\ IsSome(combat.swiftcast_remaining)
             /\ Unwrap(combat.swiftcast_remaining) > 0 ) =>
               /\ combat'.swiftcast_remaining = None
               /\ combat'.cast = None
               /\ ResolveStep
               /\ LastResolved' = LastStarted'.id ]_vars
    /\ [][ (IsSome(combat.swiftcast_remaining)
             /\ combat'.swiftcast_remaining # combat.swiftcast_remaining) =>
               \/ /\ StartStep
                  /\ AbilityBook(LastStarted'.id).cast_time > 0
                  /\ combat'.swiftcast_remaining = None
               \/ /\ pc = "tick_combat_timers" /\ ~ResetStep
                  /\ combat'.swiftcast_remaining =
                        age_option(combat.swiftcast_remaining, dt')
               \/ ResetStep ]_vars
    /\ [][ ( /\ StartStep
             /\ AbilityBook(LastStarted'.id).cast_time = 0
             /\ LastStarted'.id # "Swiftcast" ) =>
               combat'.swiftcast_remaining = combat.swiftcast_remaining ]_vars

\* Fireball or Heal has just been started after Swiftcast was used: it
\* resolved in the step that started it, there is no cast and the buff is gone.
C12_Witness ==
    /\ started # << >>
    /\ resolved # << >>
    /\ AbilityBook(LastStarted.id).cast_time > 0
    /\ LastResolved = LastStarted.id
    /\ cd_of(combat, LastStarted.id) = AbilityBook(LastStarted.id).cooldown
    /\ combat.cast = None
    /\ combat.swiftcast_remaining = None
    /\ cd_of(combat, "Swiftcast") > 1200 - 200

\* C13: an active cast has 0 <= remaining <= total, and remaining > 0
\* everywhere but between the aging step and cast completion; while it is
\* active the cast changes only by aging (ability and total kept) and ends
\* only by cast completion at remaining = 0 (or a session reset); its
\* ability is resolved by cast completion only, once, in the step that clears
\* the cast; and in a run whose ticks all have dt > 0 every cast is
\* eventually completed.
C13_CastCompletes ==
    /\ [](IsSome(combat.cast) =>
            /\ Unwrap(combat.cast).ability \in CastIds
            /\ Unwrap(combat.cast).remaining \in 0..Unwrap(combat.cast).total
            /\ pc # "process_cast_completion" => Unwrap(combat.cast).remaining > 0)
    /\ [][ (IsSome(combat.cast) /\ ~ResetStep) =>
             /\ pc # "tick_combat_timers" /\ pc # "process_cast_completion"
                   => combat'.cast = combat.cast
             /\ pc = "tick_combat_timers" =>
                   combat'.cast = Some([Unwrap(combat.cast) EXCEPT
                       !.remaining = Max(Unwrap(combat.cast).remaining - dt', 0)])
             /\ pc = "process_cast_completion" =>
                   IF Unwrap(combat.cast).remaining = 0
                   THEN /\ combat'.cast = None
                        /\ resolved' = Append(resolved, Unwrap(combat.cast).ability)
                   ELSE /\ combat'.cast = combat.cast
                        /\ resolved' = resolved
             /\ ResolveStep => pc = "process_cast_completion" ]_vars
    /\ \A id \in CastIds :
          (Live /\ IsSome(combat.cast) /\ Unwrap(combat.cast).ability = id)
             ~> ( /\ pc = "handle_ability_input"
                  /\ combat.cast = None
                  /\ resolved = <<id>> )

\* A cast that took several ticks has just been completed: Fireball is
\* resolved, the cast is gone.
C13_Witness ==
    /\ Live
    /\ pc = "handle_ability_input"
    /\ dt < AbilityBook("Fireball").cast_time
    /\ resolved = <<"Fireball">>
    /\ started = << >>
    /\ combat.cast = None
    /\ combat.gcd_remaining = combat.gcd_length

\* C14: in the tick in which a cast completes, when the key presses of that
\* tick are handled some ability is able to start.
C14_CompletedCastReplaced ==
    (pc = "handle_ability_input" /\ resolved # << >>) =>
        \E id \in AbilityIds : can_use_now(combat, id)

\* the starts of the current frame made by the system named by
StartsBy(by) == {i \in 1..Len(started) : started[i].by = by}

\* C15: the buffer re-check and the queue re-check each start at most one
\* ability per tick, the one in their slot, and empty the slot in the step
\* that starts it (otherwise they change nothing); the two never both start
\* an ability in the same tick.
C15_NoDoubleStart ==
    /\ [][ pc = "process_buffered_ability" =>
             IF StartStep
             THEN /\ IsSome(combat.buffer)
                  /\ started' = Append(started, [id |-> Unwrap(combat.buffer).id,
                                                 by |-> "process_buffered_ability"])
                  /\ combat'.buffer = None
             ELSE /\ started' = started
                  /\ combat' = combat ]_vars
    /\ [][ pc = "process_gcd_queue" =>
             IF StartStep
             THEN /\ IsSome(combat.gcd_queue)
                  /\ started' = Append(started, [id |-> Unwrap(combat.gcd_queue),
                                                 by |-> "process_gcd_queue"])
                  /\ combat'.gcd_queue = None
             ELSE /\ started' = started
                  /\ combat' = combat ]_vars
    /\ []( /\ Cardinality(StartsBy("process_buffered_ability")) <= 1
           /\ Cardinality(StartsBy("process_gcd_queue")) <= 1
           /\ StartsBy("process_buffered_ability") = {}
                \/ StartsBy("process_gcd_queue") = {} )

\* Strike sat in the buffer and in the queue at once: the buffer re-check
\* started it, the queue re-check of the same tick did not, and the queue
\* still holds its entry.
C15_Witness ==
    /\ pc = "run_enemy_timeline"
    /\ started = <<[id |-> "Strike", by |-> "process_buffered_ability"]>>
    /\ combat.buffer = None
    /\ combat.gcd_queue = Some("Strike")

\* C16: in every reachable state the aging step with dt = 0 changes no field
\* of the combat state, and a frame whose dt is 0 begins with the combat
\* state it was left with.
C16_AgingIdempotent ==
    /\ [](tick_combat_timers(combat, 0) = combat)
    /\ [][ (pc = "tick_combat_timers" /\ ~ResetStep /\ dt' = 0) =>
             combat' = combat ]_vars

\* The aging step has just run with dt = 0 on a state with the rhythm clock
\* and the animation lock running, a cooldown set and an intent in the buffer.
C16_Witness ==
    /\ pc = "process_cast_completion"
    /\ dt = 0
    /\ combat.gcd_remaining > 0
    /\ combat.ani_lock_remaining > 0
    /\ IsSome(combat.buffer)
    /\ \E id \in DOMAIN combat.ability_cds : combat.ability_cds[id] > 0

\* o does not exceed e, for Option timers: None is the least
OptionLeq(o, e) == o = None \/ (IsSome(e) /\ Unwrap(o) <= Unwrap(e))

\* C17: for every dt >= 0 the aging step increases no duration, sets no
\* Option that was None, keeps weaves_in_current_gcd, clipped, the queue, the
\* lengths and windows, the ability and total of the cast and the ability of
\* a surviving buffered intent, and keeps a cast whose remaining reaches 0;
\* the step writes no event and starts and resolves nothing.
C17_AgingOnlyAges ==
    /\ [](\A d \in AgingDTs :
            LET a == tick_combat_timers(combat, d)
            IN  /\ a.gcd_remaining <= combat.gcd_remaining
                /\ a.ani_lock_remaining <= combat.ani_lock_remaining
                /\ a.hud_shake_remaining <= combat.hud_shake_remaining
                /\ DOMAIN a.ability_cds = DOMAIN combat.ability_cds
                /\ \A id \in DOMAIN a.ability_cds :
                      a.ability_cds[id] <= combat.ability_cds[id]
                /\ OptionLeq(a.muddled, combat.muddled)
                /\ OptionLeq(a.swiftcast_remaining, combat.swiftcast_remaining)
                /\ OptionLeq(a.raging_remaining, combat.raging_remaining)
                /\ IF IsSome(combat.cast)
                   THEN /\ IsSome(a.cast)
                        /\ Unwrap(a.cast).ability = Unwrap(combat.cast).ability
                        /\ Unwrap(a.cast).total = Unwrap(combat.cast).total
                        /\ Unwrap(a.cast).remaining =
                              Max(Unwrap(combat.cast).remaining - d, 0)
                   ELSE a.cast = None
                /\ IF IsSome(a.buffer)
                   THEN /\ IsSome(combat.buffer)
                        /\ Unwrap(a.buffer).id = Unwrap(combat.buffer).id
                        /\ Unwrap(a.buffer).left <= Unwrap(combat.buffer).left
                   ELSE combat.buffer = None \/ Unwrap(combat.buffer).left <= d
                /\ a.weaves_in_current_gcd = combat.weaves_in_current_gcd
                /\ a.clipped = combat.clipped
                /\ a.gcd_queue = combat.gcd_queue
                /\ a.gcd_length = combat.gcd_length
                /\ a.buffer_window = combat.buffer_window
                /\ a.gcd_queue_window = combat.gcd_queue_window)
    /\ [][ (pc = "tick_combat_timers" /\ ~ResetStep) =>
             /\ combat' = tick_combat_timers(combat, dt')
             /\ dmg_events' = << >> /\ dot_events' = << >>
             /\ shake_events' = shake_events
             /\ started' = << >> /\ resolved' = << >> ]_vars

\* The aging step has just brought a cast to remaining = 0 and the cast is
\* still there, as is the ability that waits in the queue.
C17_Witness ==
    /\ pc = "process_cast_completion"
    /\ dt > 0
    /\ IsSome(combat.cast)
    /\ Unwrap(combat.cast).remaining = 0
    /\ IsSome(combat.gcd_queue)

\* C18: the resolution of a rhythm-consuming ability sets its cooldown to the
\* catalog cooldown, gcd_remaining to gcd_length (2.5 s), the weave counter to
\* 0, clipped to false and ani_lock_remaining to the ability's animation
\* lock, and leaves the buffer, the queue, the debuff and both buff timers as
\* they are; in the steps that call it, the only other changes are those of
\* the caller (the cast, the slot of the re-check, the consumed instant-cast
\* buff).
C18_RhythmResolution ==
    /\ [](\A id \in GcdIds :
            LET c == resolve_ability(id, World).combat
            IN  /\ c = [combat EXCEPT
                          !.ability_cds = cds_insert(combat.ability_cds, id,
                                                     AbilityBook(id).cooldown),
                          !.gcd_remaining = 50,
                          !.weaves_in_current_gcd = 0,
                          !.clipped = FALSE,
                          !.ani_lock_remaining = AbilityBook(id).ani_lock]
                /\ c.gcd_remaining = combat.gcd_length)
    /\ [][ (ResolveStep /\ LastResolved' \in GcdIds) =>
             LET id == LastResolved'
             IN  /\ resolved' = Append(resolved, id)
                 /\ cd_of(combat', id) = AbilityBook(id).cooldown
                 /\ \A k \in DOMAIN combat.ability_cds \ {id} :
                       cd_of(combat', k) = cd_of(combat, k)
                 /\ combat'.gcd_remaining = 50
                 /\ combat'.weaves_in_current_gcd = 0
                 /\ ~combat'.clipped
                 /\ combat'.ani_lock_remaining = AbilityBook(id).ani_lock
                 /\ combat'.cast = None
                 /\ combat'.muddled = combat.muddled
                 /\ combat'.raging_remaining = combat.raging_remaining
                 /\ combat'.swiftcast_remaining =
                       IF StartStep /\ id \in CastIds THEN None
                       ELSE combat.swiftcast_remaining
                 /\ combat'.buffer =
                       IF pc = "process_buffered_ability" THEN None ELSE combat.buffer
                 /\ combat'.gcd_queue =
                       IF pc = "process_gcd_queue" THEN None ELSE combat.gcd_queue
           ]_vars

\* Cast completion has just resolved Fireball while another ability waits in
\* the queue: the clock is re-armed and the queue still holds its entry.
C18_Witness ==
    /\ pc = "handle_ability_input"
    /\ resolved = <<"Fireball">>
    /\ started = << >>
    /\ IsSome(combat.gcd_queue)
    /\ combat.gcd_remaining = 50
    /\ combat.ani_lock_remaining = AbilityBook("Fireball").ani_lock
    /\ cd_of(combat, "Fireball") = AbilityBook("Fireball").cooldown

\* The events a rhythm-consuming ability emits when it resolves with the
\* damage buff active or not.
GcdDamage(id, raging) ==
    CASE id = "Strike"   -> IF raging THEN <<120>> ELSE <<100>>
      [] id = "Fireball" -> IF raging THEN <<216>> ELSE <<180>>
      [] OTHER -> << >>

\* C19: the resolution of Strike writes one DamageEvent of 100 and that of
\* Fireball one of 180, or 120 and 216 exactly when raging_remaining is > 0
\* in the state in which the ability resolves (for a cast: at its
\* completion); Burn writes no damage and one ApplyDotEvent {dps 20,
\* duration 12 s, tick_every 1 s}; Heal writes nothing.
C19_RhythmEvents ==
    [][ (ResolveStep /\ LastResolved' \in GcdIds) =>
          LET id == LastResolved'
              raging == IsSome(combat.raging_remaining)
                        /\ Unwrap(combat.raging_remaining) > 0
          IN  /\ dmg_events' = dmg_events \o GcdDamage(id, raging)
              /\ dot_events' =
                    IF id = "Burn"
                    THEN Append(dot_events, [dps |-> 20, duration |-> 240,
                                             tick_every |-> 20])
                    ELSE dot_events
      ]_vars

\* Fireball began its cast with the damage buff active and completed after
\* the buff had run out: its damage is 180.
C19_Witness ==
    /\ pc = "handle_ability_input"
    /\ resolved = <<"Fireball">>
    /\ started = << >>
    /\ dmg_events = <<180>>
    /\ combat.raging_remaining = None
    /\ cd_of(combat, "Raging") > 1800 - 300 - 30

\* The damage an off-rhythm ability writes when it resolves.
OgcdDamage(id) ==
    CASE id = "WeaveDash" -> <<60>>
      [] id = "WeaveSong" -> <<50>>
      [] id = "Jump"      -> <<120>>
      [] OTHER -> << >>

\* C20: the resolution of an off-rhythm ability sets its cooldown, adds one
\* to the weave counter, sets ani_lock_remaining to its animation lock and
\* applies its own effect only (Cleanse: the debuff becomes None; Swiftcast:
\* swiftcast_remaining = 10 s; Raging: raging_remaining = 15 s; WeaveDash,
\* WeaveSong, Jump: one DamageEvent of 60, 50, 120 whatever the damage buff);
\* gcd_remaining, the cast and the queue are unchanged, and so is the buffer
\* unless the buffer re-check is the caller and has emptied its slot.
C20_OgcdResolution ==
    [][ (ResolveStep /\ LastResolved' \in OgcdIds) =>
          LET id == LastResolved'
          IN  /\ resolved' = Append(resolved, id)
              /\ cd_of(combat', id) = AbilityBook(id).cooldown
              /\ \A k \in DOMAIN combat.ability_cds \ {id} :
                    cd_of(combat', k) = cd_of(combat, k)
              /\ combat'.weaves_in_current_gcd = combat.weaves_in_current_gcd + 1
              /\ combat'.ani_lock_remaining = AbilityBook(id).ani_lock
              /\ combat'.muddled =
                    IF id = "Cleanse" THEN None ELSE combat.muddled
              /\ combat'.swiftcast_remaining =
                    IF id = "Swiftcast" THEN Some(200) ELSE combat.swiftcast_remaining
              /\ combat'.raging_remaining =
                    IF id = "Raging" THEN Some(300) ELSE combat.raging_remaining
              /\ dmg_events' = dmg_events \o OgcdDamage(id)
              /\ dot_events' = dot_events
              /\ combat'.gcd_remaining = combat.gcd_remaining
              /\ combat'.cast = combat.cast
              /\ combat'.gcd_queue = combat.gcd_queue
              /\ combat'.buffer =
                    IF pc = "process_buffered_ability" THEN None ELSE combat.buffer
      ]_vars

\* Cleanse has just removed the debuff the enemy timeline had set, with the
\* rhythm clock running.
C20_Witness ==
    /\ pc \in {"input_loop", "process_buffered_ability"}
    /\ resolved = <<"Cleanse">>
    /\ combat.muddled = None
    /\ timeline.idx = 2
    /\ timeline.t < 120 + 160
    /\ combat.weaves_in_current_gcd = 1
    /\ combat.gcd_remaining > 0

\* The requests of the current frame, by position, that took the queue path
\* and those that took the buffer path, when none of them was eligible.
QueuePath == {i \in 1..Len(requested) : queues_next_gcd(combat, requested[i])}
BufferPath == (1..Len(requested)) \ QueuePath

\* the greatest element of a non-empty set of numbers
Last(S) == CHOOSE i \in S : \A j \in S : j <= i

\* C21: when the requests of a tick were all ineligible, after each of them
\* the buffer holds only the last request that took the buffer path, with a
\* fresh 0.4 s of grace, and the queue holds only the last request that took
\* the queue path: a slot is overwritten, never appended to, never refused.
C21_OverwriteLaw ==
    (pc \in {"input_loop", "process_buffered_ability"} /\ started = << >>) =>
        /\ BufferPath # {} =>
              combat.buffer = Some([id |-> requested[Last(BufferPath)], left |-> 8])
        /\ QueuePath # {} =>
              combat.gcd_queue = Some(requested[Last(QueuePath)])

\* A rhythm ability and then an off-rhythm ability were requested in one
\* tick and both took the buffer path: the buffer holds the second.
C21_Witness ==
    /\ pc = "process_buffered_ability"
    /\ started = << >>
    /\ Len(requested) = 2
    /\ BufferPath = {1, 2}
    /\ requested[1] \in GcdIds
    /\ requested[2] \in OgcdIds
    /\ combat.buffer = Some([id |-> requested[2], left |-> 8])

\* C22: within a session an intent leaves the buffer only by being started
\* by the buffer re-check, by the expiry of its grace time in the aging step
\* (once the tick times since it was buffered add up to 0.4 s), or by a newer
\* buffered request; an ability leaves the queue only by being started by
\* the queue re-check or by a newer queued request.
C22_NoExplicitCancel ==
    /\ [][ (IsSome(combat.buffer) /\ combat'.buffer # combat.buffer /\ ~ResetStep) =>
             \/ /\ pc = "tick_combat_timers"
                /\ combat'.buffer =
                      IF Unwrap(combat.buffer).left - dt' > 0
                      THEN Some([id |-> Unwrap(combat.buffer).id,
                                 left |-> Unwrap(combat.buffer).left - dt'])
                      ELSE None
             \/ /\ RequestStep
                /\ ~StartStep
                /\ combat'.buffer = Some([id |-> LastRequested', left |-> 8])
             \/ /\ pc = "process_buffered_ability"
                /\ StartStep
                /\ LastStarted'.id = Unwrap(combat.buffer).id
                /\ combat'.buffer = None ]_vars
    /\ [][ (IsSome(combat.gcd_queue) /\ combat'.gcd_queue # combat.gcd_queue
                /\ ~ResetStep) =>
             \/ /\ RequestStep
                /\ ~StartStep
                /\ LastRequested' \in GcdIds
                /\ combat'.gcd_queue = Some(LastRequested')
             \/ /\ pc = "process_gcd_queue"
                /\ StartStep
                /\ LastStarted'.id = Unwrap(combat.gcd_queue)
                /\ combat'.gcd_queue = None ]_vars

\* A queued ability has outlasted a cast completion and a tick of 0.4 s or
\* more: the rhythm clock is running again, the buffer is empty and the
\* queue still holds the ability.
C22_Witness ==
    /\ pc = "process_cast_completion"
    /\ dt >= 8
    /\ combat.cast = None
    /\ combat.gcd_remaining \in 1..49
    /\ combat.buffer = None
    /\ IsSome(combat.gcd_queue)

(* Enemy timeline *)

\* The trigger times of the first entry (3.0 s) and of Enrage (25.0 s).
FirstAt == default_events[1].at
EnrageAt == default_events[Len(default_events)].at

\* timeline.t as the loop of run_enemy_timeline first sees it in this frame
ElapsedNow == ensure_default_events(timeline).t + dt

\* the entries whose trigger time is at or before t
Due(t) == {i \in 1..Len(default_events) : default_events[i].at <= t}

\* run_enemy_timeline has just applied Enrage
EnrageApplied == pc = "apply_hud_shake" /\ timeline.t = 0 /\ dt > 0

\* C23 (Scenario E): the tick in which elapsed reaches the trigger time of
\* Enrage ends with elapsed = 0 and nextIndex = 0, whatever the overshoot,
\* and with no entry processed after Enrage; in every other tick elapsed
\* grows by dt and nextIndex is the number of entries due, so the first entry
\* fires again only when 3.0 s have elapsed anew; and in a run whose ticks all
\* have dt > 0 Enrage is reached again and again, and the first entry fires
\* again after it.
C23_EnrageLoops ==
    /\ [][ pc = "run_enemy_timeline" =>
             /\ timeline'.events = default_events
             /\ IF ElapsedNow >= EnrageAt
                THEN timeline'.t = 0 /\ timeline'.idx = 0
                ELSE /\ timeline'.t = ElapsedNow
                     /\ timeline'.idx = Cardinality(Due(ElapsedNow)) ]_vars
    /\ Live ~> EnrageApplied
    /\ (Live /\ EnrageApplied) ~>
          (pc = "apply_hud_shake" /\ timeline.idx = 1 /\ timeline.t >= FirstAt
             /\ timeline.t < FirstAt + dt)

\* In a run without end Enrage has just been applied, after the last key press.
C23_Witness ==
    /\ Live
    /\ frames = script.frames
    /\ EnrageApplied
    /\ timeline.idx = 0
    /\ timeline.events = default_events

\* C24: the tick that applies Enrage leaves hud_shake_remaining at
\* max(its value before, 2.0), never lower than before, and the debuff at
\* Some(5.0) whatever it was.
C24_EnrageEffect ==
    [][ (pc = "run_enemy_timeline" /\ ElapsedNow >= EnrageAt) =>
          /\ combat'.hud_shake_remaining = Max(combat.hud_shake_remaining, 40)
          /\ combat'.hud_shake_remaining >= combat.hud_shake_remaining
          /\ combat'.muddled = Some(100)
          /\ combat' = [combat EXCEPT
                          !.hud_shake_remaining = combat'.hud_shake_remaining,
                          !.muddled = combat'.muddled] ]_vars

\* One tick has crossed the second alert and Enrage: the alert of 1.5 s is
\* written and not yet read, hud_shake_remaining is 2.0 and the debuff 5.0.
C24_Witness ==
    /\ EnrageApplied
    /\ shake_events # << >>
    /\ shake_events[Len(shake_events)] = 30
    /\ combat.hud_shake_remaining = 40
    /\ combat.muddled = Some(100)

\* the alert durations of the entries lo..hi of the schedule, in order
ShakesOf(lo, hi) ==
    LET sub == SelectSeq(SubSeq(default_events, lo, hi),
                         LAMBDA e : e.kind = "HudShake")
    IN  [i \in 1..Len(sub) |-> sub[i].duration]

\* C25: once the schedule is installed nextIndex is a valid index, every
\* entry before it has its trigger time at or before elapsed and the entry
\* at it has not; and a tick applies exactly the entries between the old
\* nextIndex and the new one (up to Enrage, if it is reached), each once
\* and in the order of the schedule, whatever the number of trigger times
\* the tick crosses.
C25_CursorInvariant ==
    /\ [](timeline.events # << >> =>
            /\ timeline.events = default_events
            /\ timeline.idx \in 0..(Len(timeline.events) - 1)
            /\ \A i \in 1..timeline.idx : timeline.events[i].at <= timeline.t
            /\ timeline.events[timeline.idx + 1].at > timeline.t)
    /\ [][ pc = "run_enemy_timeline" =>
             LET lo == ensure_default_events(timeline).idx + 1
                 enrage == ElapsedNow >= EnrageAt
                 hi == IF enrage THEN Len(default_events) - 1 ELSE timeline'.idx
                 muddles == {i \in lo..hi : default_events[i].kind = "Muddled"}
             IN  /\ shake_events' = shake_events \o ShakesOf(lo, hi)
                 /\ combat'.muddled =
                       IF enrage THEN Some(100)
                       ELSE IF muddles # {} THEN Some(160)
                       ELSE combat.muddled ]_vars

\* One tick has crossed the trigger times of the debuff and of the second
\* alert: both took effect, the debuff first, and nextIndex is at Enrage.
C25_Witness ==
    /\ pc = "apply_hud_shake"
    /\ timeline.idx = Len(default_events) - 1
    /\ shake_events = <<30>>
    /\ combat.muddled = Some(160)
    /\ combat.hud_shake_remaining < 20

\* C26: a session reset leaves every field of the combat state at its
\* default and the enemy timeline at elapsed = 0 and nextIndex = 0.
C26_ResetReinitializesAll ==
    [][ ResetStep =>
          /\ combat' = CombatStateDefault
          /\ timeline'.t = 0
          /\ timeline'.idx = 0 ]_vars

\* C30: in every reachable state weaves_in_current_gcd <= 2 and clipped is
\* false.
C30_NeverClipped ==
    /\ combat.weaves_in_current_gcd \in 0..2
    /\ combat.clipped = FALSE

\* A third off-rhythm ability was requested after two weaves with nothing
\* but the cap against it: it sits in the buffer and the counter is still 2.
C30_Witness ==
    /\ pc = "process_buffered_ability"
    /\ requested # << >>
    /\ LastRequested \in OgcdIds
    /\ started = << >>
    /\ combat.weaves_in_current_gcd = 2
    /\ combat.gcd_remaining > 0
    /\ combat.cast = None
    /\ combat.ani_lock_remaining = 0
    /\ cd_of(combat, LastRequested) = 0
    /\ combat.buffer = Some([id |-> LastRequested, left |-> 8])

---------------------------------------------------------------------------
(* The enemy's health and its damage over time *)

\* The frame is over: its commands are applied.
FrameOver == pc = "pre_update"

\* C27: in scenario D (Burn's DoT, dps 20, duration 12 s, tick_every 1 s,
\* applied at t = 0 and no other event), once the frames' times add up to
\* 12.4 s, however they are split, tick_dots has written exactly 12
\* DamageEvents, each of amount 20 (the health is down by 20 for each one
\* read and the unread ones are 20 each), and the DotEffect is removed.
C27_ScenarioD ==
    (ScenarioD /\ FrameOver /\ dot_age = Some(ScenarioDEnd)) =>
        /\ dot = None
        /\ dot_emitted = BurnDot.duration \div BurnDot.tick_every
        /\ \A i \in 1..Len(dmg_unread) : dmg_unread[i] = BurnDot.dps
        /\ health.current
              = health.max - BurnDot.dps * (dot_emitted - Len(dmg_unread))

\* 12.4 s have passed in scenario D, the last frame one of 0.4 s after the
\* removal; 12 events were written and all of them read.
C27_Witness ==
    /\ ScenarioD /\ FrameOver /\ dot_age = Some(ScenarioDEnd)
    /\ dt = 8
    /\ dot = None
    /\ dot_emitted = 12
    /\ dmg_unread = << >>
    /\ health.current = 1760

\* The frame's commands are applied in the step.
SyncStep == pc = "update" /\ pc' = "pre_update"

\* C28: when a DoT is applied while a DotEffect is installed, after the
\* frame's commands are applied the enemy has one DotEffect, that of the
\* last ApplyDotEvent: remaining its duration, its dps and tick_every, and
\* tick_accum 0.
C28_OverwriteSemantics ==
    [][ (SyncStep /\ commands.apply # << >> /\ IsSome(dot)) =>
          dot' = Some(commands.apply[Len(commands.apply)].component) ]_vars

\* handle_damage_events runs in the step.
DamageStep == "handle_damage_events" \notin ran /\ "handle_damage_events" \in ran'

RECURSIVE Sum(_)
Sum(amounts) == IF amounts = << >> THEN 0 ELSE Head(amounts) + Sum(Tail(amounts))

\* C29: the health starts within 0..max; no step takes it out of 0..max or
\* raises it, and a run of handle_damage_events lowers it by the sum of the
\* amounts of the DamageEvents it reads, or to 0 if that is less than the sum.
C29_HealthFloor ==
    /\ health.current \in 0..health.max
    /\ [][ /\ health'.current \in 0..health'.max
           /\ health'.current <= health.current
           /\ health'.max = health.max
           /\ DamageStep =>
                 health'.current = Max(health.current - Sum(dmg_unread), 0) ]_vars

\* handle_damage_events has read events and the health is at the floor.
C29_Witness ==
    /\ pc = "update" /\ "handle_damage_events" \in ran
    /\ health.current = 0
    /\ dmg_unread = << >>
    /\ frames >= 8

---------------------------------------------------------------------------
(* The queue, the starts of a tick and the cast *)

\* The step is the aging of tick_combat_timers.
AgingStep == pc = "tick_combat_timers" /\ pc' = "process_cast_completion"

\* C31: the queued ability changes only in a step in which a request for a
\* rhythm ability is queued (it becomes that ability), in a step of the
\* queue re-check that starts it (it becomes empty), or at the reset of the
\* session; the aging step, cast completion, a request that starts at once
\* and the buffer re-check, whatever they start, leave it as it was.
C31_QueueFrame ==
    /\ [][ (combat'.gcd_queue # combat.gcd_queue) =>
             \/ /\ RequestStep /\ ~StartStep
                /\ LastRequested' \in GcdIds
                /\ combat'.gcd_queue = Some(LastRequested')
             \/ /\ pc = "process_gcd_queue" /\ StartStep
                /\ LastStarted'.id = Unwrap(combat.gcd_queue)
                /\ combat'.gcd_queue = None
             \/ ResetStep ]_vars
    /\ [][ ( \/ AgingStep
             \/ pc = "process_cast_completion"
             \/ RequestStep /\ StartStep
             \/ pc = "process_buffered_ability" ) =>
           combat'.gcd_queue = combat.gcd_queue ]_vars

\* In the class with frames of 0.6 s and more: the rhythm clock was at 2.5 s
\* before this frame's aging of 2.4 s, so it was re-armed in an earlier
\* frame, and the queued ability, requested in a frame before that one, is
\* still pending 3 s or more after its request.
C31_Witness ==
    /\ script.kind = "buffs"
    /\ pc = "process_cast_completion"
    /\ dt = 48
    /\ combat.gcd_remaining = 2
    /\ combat.cast = None
    /\ IsSome(combat.gcd_queue)

\* C32: in one tick at most one ability is started or resolved by cast
\* completion, by the requests, by the buffer re-check and by the queue
\* re-check together: a step that starts an ability or completes a cast
\* finds that no ability has been started and none resolved in the tick.
C32_OneStartPerTick ==
    [][ (StartStep \/ ResolveStep) => (started = << >> /\ resolved = << >>) ]_vars

\* Two requests in one tick: the first started, the second did not, and
\* neither re-check started anything.
C32_Witness ==
    /\ pc = "run_enemy_timeline"
    /\ Len(requested) = 2
    /\ started = <<[id |-> requested[1], by |-> "handle_ability_input"]>>
    /\ IsSome(combat.buffer) /\ Unwrap(combat.buffer).id = requested[2]

\* C33: in every reachable state the cooldown of each rhythm-consuming
\* ability is at most gcd_remaining, and every step that starts a
\* rhythm-consuming ability, the queue re-check's included, finds the
\* ability's own cooldown at 0.
C33_CooldownUnderClock ==
    /\ [](\A id \in GcdIds : cd_of(combat, id) <= combat.gcd_remaining)
    /\ [][ (StartStep /\ LastStarted'.id \in GcdIds) =>
             cd_of(combat, LastStarted'.id) = 0 ]_vars

\* Strike resolved earlier in the session (it has a cooldown entry) and was
\* queued again while the clock ran; the cooldown has aged to 0 with the
\* clock, and the queue re-check, which does not look at it, is about to
\* start Strike.
C33_Witness ==
    /\ pc = "process_gcd_queue"
    /\ started = << >>
    /\ combat.gcd_queue = Some("Strike")
    /\ "Strike" \in DOMAIN combat.ability_cds
    /\ cd_of(combat, "Strike") = 0
    /\ combat.gcd_remaining = 0
    /\ combat.ani_lock_remaining = 0
    /\ combat.cast = None

\* A cast begins in the step.
CastStartStep == combat.cast = None /\ IsSome(combat'.cast)

\* A cast completes in the step.
CastCompletionStep == pc = "process_cast_completion" /\ ResolveStep

\* C34: whenever a cast is active, gcd_remaining and ani_lock_remaining are
\* 0, the cast's ability has a cast_time > 0 in the catalog and the cast's
\* total is that cast_time; the step in which a cast begins leaves
\* gcd_remaining at 0, and the step in which it completes sets it to
\* gcd_length.
C34_CastState ==
    /\ [](IsSome(combat.cast) =>
            /\ combat.gcd_remaining = 0
            /\ combat.ani_lock_remaining = 0
            /\ AbilityBook(Unwrap(combat.cast).ability).cast_time > 0
            /\ Unwrap(combat.cast).total
                  = AbilityBook(Unwrap(combat.cast).ability).cast_time)
    /\ [][ CastStartStep =>
             combat.gcd_remaining = 0 /\ combat'.gcd_remaining = 0 ]_vars
    /\ [][ CastCompletionStep =>
             /\ combat.gcd_remaining = 0
             /\ combat'.gcd_remaining = combat.gcd_length
             /\ combat'.cast = None ]_vars

\* A cast is half-way: it has been aged and is still running, and an
\* intent of the tick could not start.
C34_Witness ==
    /\ pc = "process_buffered_ability"
    /\ IsSome(combat.cast)
    /\ Unwrap(combat.cast).remaining \in 1..(Unwrap(combat.cast).total - 1)
    /\ requested # << >>
    /\ started = << >>
    /\ combat.gcd_remaining = 0

\* C35: an intent that was put in the buffer while a cast was active, and
\* has not been replaced by a later request since, is never started by the
\* buffer re-check: as long as it is in the buffer a cast is active or its
\* ability is not eligible.
C35_BufferedInCastNeverStarts ==
    /\ [][ (pc = "process_buffered_ability" /\ StartStep) => ~buffered_in_cast ]_vars
    /\ [](buffered_in_cast =>
            /\ IsSome(combat.buffer)
            /\ \/ IsSome(combat.cast)
               \/ ~can_use_now(combat, Unwrap(combat.buffer).id))

\* The cast completed in an earlier tick; the intent buffered during it is
\* still in the buffer, with grace time left, and the buffer re-check of
\* this tick has not started it.
C35_Witness ==
    /\ pc = "process_gcd_queue"
    /\ buffered_in_cast
    /\ combat.cast = None
    /\ resolved = << >>
    /\ started = << >>
    /\ combat.gcd_remaining \in 1..(combat.gcd_length - 1)
    /\ Unwrap(combat.buffer).left \in 1..7

---------------------------------------------------------------------------
(* The lifetime of a DoT *)

\* C36: from its insertion on, one DotEffect with duration D and interval I
\* has made tick_dots write at most D / I DamageEvents, however the time is
\* split into frames (every DotEffect here is Burn's: D = 12 s, I = 1 s).
C36_AtMostDurationOverInterval ==
    dot_emitted <= BurnDot.duration \div BurnDot.tick_every

====
